---- MODULE Spec2Model ----
(***************************************************************************)
(* A model of the parameter normalisation / transaction building pipeline  *)
(* of hedera-agent-kit-py (HederaParameterNormaliser, HederaBuilder) and   *)
(* of the token tools that drive it.                                       *)
(*                                                                         *)
(* One tool invocation is one run of the state machine: the raw            *)
(* parameters, the context and the signing client are chosen in the        *)
(* initial state; the actions apply the normaliser, the builder and the    *)
(* execution strategy in the order the code calls them.                    *)
(***************************************************************************)
EXTENDS Integers, Sequences, FiniteSets, TLC

VARIABLES
    op,          \* the operation (normaliser / builder / tool) being run
    params,      \* the raw parameters, as validated by the schema
    context,     \* Context: the account bound to the agent, if any
    client,      \* Client: operator account and operator private key, if any
    mirror,      \* what the mirror service answers in this invocation
    pc,         \* position of the invocation
    normalised,  \* outcome of the normaliser (a Result)
    tx,          \* the transaction the builder returned
    response,    \* the ToolResponse returned to the caller
    exc,         \* the exception raised inside the tool, if any
    calls        \* log of the sub-operations and external calls made, in order

vars == <<op, params, context, client, mirror, pc, normalised, tx, response, exc, calls>>

----------------------------------------------------------------------------
(* Python values.                                                          *)

\* Optional[T]: None is the empty tuple, a present value v is <<v>>.
None == <<>>
Some(v) == <<v>>
IsNone(x) == x = <<>>
Get(x) == x[1]

\* Truthiness of an Optional[str]: None and "" are both falsy.
TruthyStr(x) == x /= <<>> /\ x[1] /= ""

\* An exception: its class and its message (a sequence of text pieces, the
\* f-string's literal parts and its interpolated values).
NoError == [cls |-> "", msg |-> <<>>]
Exc(cls, msg) == [cls |-> cls, msg |-> msg]

\* What a call ends with: a returned value or a raised exception, together
\* with the sub-operations it invoked.
Ok(v, c) == [ok |-> TRUE, value |-> v, error |-> NoError, calls |-> c]
Raise(cls, msg, c) == [ok |-> FALSE, value |-> None, error |-> Exc(cls, msg), calls |-> c]

\* A raw key parameter: Union[str, bool, None].
RawNone == [t |-> "none", b |-> FALSE, s |-> ""]
RawBool(b) == [t |-> "bool", b |-> b, s |-> ""]
RawStr(s) == [t |-> "str", b |-> FALSE, s |-> s]

----------------------------------------------------------------------------
(* Bounds of the model.                                                    *)

\* Longest list of transfer entries drawn.
MaxTransfers == 2
\* Display amounts are drawn as multiples of 1/AmountScale HBAR.
AmountScale == 2
\* Largest display amount drawn, in units of 1/AmountScale HBAR.
MaxAmount == 2

----------------------------------------------------------------------------
(* Identities: account ids and keys.                                       *)

AccountStrings == {"0.0.1001", "0.0.1002", "0.0.2"}

\* AccountId.from_string: the text "shard.realm.num" to the id's three numbers.
AccountIdFromString(s) ==
    CASE s = "0.0.1001" -> [shard |-> 0, realm |-> 0, num |-> 1001]
      [] s = "0.0.1002" -> [shard |-> 0, realm |-> 0, num |-> 1002]
      [] s = "0.0.2"    -> [shard |-> 0, realm |-> 0, num |-> 2]

\* str(AccountId): the inverse rendering.
AccountIdToString(a) ==
    CASE a.num = 1001 -> "0.0.1001"
      [] a.num = 1002 -> "0.0.1002"
      [] a.num = 2    -> "0.0.2"

\* Key strings a caller may pass, and which encodings accept each of them.
\* The two parsers belong to the ledger SDK; the model makes no assumption on
\* them beyond "a string is accepted or it is not", so all four cases occur.
KeyStrings == {"ed25519-a", "ed25519-b", "ecdsa-a", "ecdsa-b", "dual", "garbage", ""}
Ed25519Strings == {"ed25519-a", "ed25519-b", "dual"}
EcdsaStrings == {"ecdsa-a", "ecdsa-b", "dual"}

PublicKeyOf(algo, material) == [algo |-> algo, material |-> material]

\* PublicKey.from_string_ed25519 / PublicKey.from_string_ecdsa.
from_string_ed25519(s) ==
    IF s \in Ed25519Strings
    THEN Ok(PublicKeyOf("ED25519", s), <<>>)
    ELSE Raise("ValueError", <<"Invalid Ed25519 public key: ", s>>, <<>>)

from_string_ecdsa(s) ==
    IF s \in EcdsaStrings
    THEN Ok(PublicKeyOf("ECDSA", s), <<>>)
    ELSE Raise("ValueError", <<"Invalid ECDSA public key: ", s>>, <<>>)

\* Operator private keys and PrivateKey.public_key().
PrivateKeys == {"operator-priv-ed", "operator-priv-ec"}
public_key(priv) ==
    IF priv = "operator-priv-ed"
    THEN PublicKeyOf("ED25519", "operator-pub-ed")
    ELSE PublicKeyOf("ECDSA", "operator-pub-ec")

\* A variant of resolve_key: a string that fails the Ed25519 parse falls back to
\* the default key instead of the ECDSA parse, and true yields no key.
resolve_key_default_on_failure(raw_value, user_key) ==
    IF raw_value.t = "none" THEN Ok(None, <<>>)
    ELSE IF raw_value.t = "str"
         THEN LET ed == from_string_ed25519(raw_value.s) IN
              IF ed.ok THEN Ok(Some(ed.value), <<>>) ELSE Ok(user_key, <<>>)
         ELSE Ok(None, <<>>)

\* HederaParameterNormaliser.resolve_key(raw_value, user_key) -> Optional[PublicKey].
\* user_key is itself Optional: normalise_update_topic passes None when the
\* client has no operator private key.
resolve_key(raw_value, user_key) ==
    IF raw_value.t = "none" THEN Ok(None, <<>>)
    ELSE IF raw_value.t = "str"
         THEN LET ed == from_string_ed25519(raw_value.s) IN
              IF ed.ok
              THEN Ok(Some(ed.value), <<>>)
              ELSE LET ec == from_string_ecdsa(raw_value.s) IN
                   IF ec.ok THEN Ok(Some(ec.value), <<>>) ELSE ec
         ELSE IF raw_value.b THEN Ok(user_key, <<>>)
         ELSE Ok(None, <<>>)

\* AccountResolver.get_default_account(context, client) -> Optional[str]:
\* the account bound to the context, else the client's operator account.
get_default_account(ctx, cl) ==
    IF TruthyStr(ctx.account_id) THEN ctx.account_id
    ELSE IF ~IsNone(cl.operator_account_id)
         THEN Some(AccountIdToString(Get(cl.operator_account_id)))
         ELSE None

\* AccountResolver.resolve_account(explicit, context, client) -> str.
resolve_account(explicit, ctx, cl) ==
    IF TruthyStr(explicit) THEN Ok(Get(explicit), <<>>)
    ELSE LET d == get_default_account(ctx, cl) IN
         IF IsNone(d)
         THEN Raise("ValueError", <<"Could not determine default account ID">>, <<>>)
         ELSE Ok(Get(d), <<>>)

\* AccountResolver.get_default_public_key(context, client) -> PublicKey:
\* the public counterpart of the signing credential.
get_default_public_key(ctx, cl) ==
    IF IsNone(cl.operator_private_key)
    THEN Raise("ValueError", <<"Could not determine default public key">>, <<>>)
    ELSE Ok(public_key(Get(cl.operator_private_key)), <<>>)

----------------------------------------------------------------------------
(* Schema validation and the schedule sub-normaliser.                      *)

\* HederaParameterNormaliser.format_validation_errors: one item per issue,
\* joined by "; ".
RECURSIVE format_validation_errors(_)
format_validation_errors(issues) ==
    IF issues = <<>> THEN <<>>
    ELSE LET item == <<"Field \"", issues[1].loc[1], "\" - ", issues[1].msg>> IN
         IF Len(issues) = 1 THEN item
         ELSE item \o <<"; ">> \o format_validation_errors(Tail(issues))

\* A variant of parse_params_with_schema that lets every input through.
parse_params_with_schema_unvalidated(p) == Ok(p, <<>>)

\* HederaParameterNormaliser.parse_params_with_schema. The raw parameters
\* carry the errors pydantic's model_validate finds in them (none when
\* valid), each with its location tuple and its message. The location of an
\* error on the input as a whole is the empty tuple, and err["loc"][0] on it
\* raises IndexError inside the except block.
parse_params_with_schema(p) ==
    IF p.issues = <<>>
    THEN Ok(p, <<>>)
    ELSE IF \E i \in 1..Len(p.issues) : p.issues[i].loc = <<>>
    THEN Raise("IndexError", <<"tuple index out of range">>, <<>>)
    ELSE Raise("ValueError",
               <<"Invalid parameters: ">> \o format_validation_errors(p.issues), <<>>)

\* Timestamp.from_date: a datetime to seconds and nanoseconds since the epoch.
ExpirationTimes == {"2030-01-01T00:00:00Z"}
TimestampFromDate(d) ==
    CASE d = "2030-01-01T00:00:00Z" -> [seconds |-> 1893456000, nanos |-> 0]

\* A variant of normalise_scheduled_transaction_params in which the default
\* account pays when the block names no payer.
normalise_scheduled_transaction_params_default_payer(scheduling, ctx, cl) ==
    LET here == <<"normalise_scheduled_transaction_params">>
        user_public_key == get_default_public_key(ctx, cl)
    IN
    IF ~user_public_key.ok
    THEN [user_public_key EXCEPT !.calls = here]
    ELSE LET admin_key == resolve_key(scheduling.admin_key, Some(user_public_key.value)) IN
         IF ~admin_key.ok
         THEN [admin_key EXCEPT !.calls = here]
         ELSE Ok([admin_key |-> admin_key.value,
                  payer_account_id |->
                      IF TruthyStr(scheduling.payer_account_id)
                      THEN Some(AccountIdFromString(Get(scheduling.payer_account_id)))
                      ELSE cl.operator_account_id,
                  expiration_time |->
                      IF ~IsNone(scheduling.expiration_time)
                      THEN Some(TimestampFromDate(Get(scheduling.expiration_time)))
                      ELSE None,
                  wait_for_expiry |->
                      IF IsNone(scheduling.wait_for_expiry)
                      THEN FALSE
                      ELSE Get(scheduling.wait_for_expiry)],
                 here)

\* HederaParameterNormaliser.normalise_scheduled_transaction_params.
normalise_scheduled_transaction_params(scheduling, ctx, cl) ==
    LET here == <<"normalise_scheduled_transaction_params">>
        user_public_key == get_default_public_key(ctx, cl)
    IN
    IF ~user_public_key.ok
    THEN [user_public_key EXCEPT !.calls = here]
    ELSE LET admin_key == resolve_key(scheduling.admin_key, Some(user_public_key.value)) IN
         IF ~admin_key.ok
         THEN [admin_key EXCEPT !.calls = here]
         ELSE Ok([admin_key |-> admin_key.value,
                  payer_account_id |->
                      IF TruthyStr(scheduling.payer_account_id)
                      THEN Some(AccountIdFromString(Get(scheduling.payer_account_id)))
                      ELSE None,
                  expiration_time |->
                      IF ~IsNone(scheduling.expiration_time)
                      THEN Some(TimestampFromDate(Get(scheduling.expiration_time)))
                      ELSE None,
                  wait_for_expiry |->
                      IF IsNone(scheduling.wait_for_expiry)
                      THEN FALSE
                      ELSE Get(scheduling.wait_for_expiry)],
                 here)

\* The scheduling block shared by create account, update account, submit topic
\* message, create ERC-20, transfer HBAR with allowance and dissociate token:
\*     if getattr(parsed_params, "scheduling_params", None):
\*         if parsed_params.scheduling_params.is_scheduled: ...
schedule_if_scheduled(p, ctx, cl) ==
    IF ~IsNone(p.scheduling_params) /\ Get(p.scheduling_params).is_scheduled
    THEN LET s == normalise_scheduled_transaction_params(Get(p.scheduling_params), ctx, cl) IN
         IF s.ok THEN Ok(Some(s.value), s.calls) ELSE s
    ELSE Ok(None, <<>>)

\* The scheduling block of normalise_transfer_hbar:
\*     if getattr(parsed_params, "scheduling_params", None): ...
\* (a SchedulingParams instance is truthy whatever its fields hold).
schedule_if_present(p, ctx, cl) ==
    IF ~IsNone(p.scheduling_params)
    THEN LET s == normalise_scheduled_transaction_params(Get(p.scheduling_params), ctx, cl) IN
         IF s.ok THEN Ok(Some(s.value), s.calls) ELSE s
    ELSE Ok(None, <<>>)

----------------------------------------------------------------------------
(* Amounts and transfer ledgers.                                           *)

\* Tinybars in one HBAR.
TinybarsPerHbar == 100000000

\* A display amount a stands for a / AmountScale HBAR.
Amounts == -1..MaxAmount

\* to_tinybars(Decimal(amount)): display HBAR to integer tinybars.
to_tinybars(amount) == (amount * TinybarsPerHbar) \div AmountScale

\* Hbar(amount).to_tinybars().
hbar_to_tinybars(amount) == (amount * TinybarsPerHbar) \div AmountScale

\* dict[AccountId, int]: a function on the set of its keys.
EmptyDict == [k \in {} |-> 0]
DictGet(d, k, default) == IF k \in DOMAIN d THEN d[k] ELSE default
DictSet(d, k, v) == [x \in (DOMAIN d) \cup {k} |-> IF x = k THEN v ELSE d[x]]

RECURSIVE SumOver(_, _)
SumOver(d, keys) ==
    IF keys = {} THEN 0
    ELSE LET k == CHOOSE x \in keys : TRUE IN d[k] + SumOver(d, keys \ {k})

\* The sum of a ledger's deltas.
DictSum(d) == SumOver(d, DOMAIN d)

\* A variant of transfer_hbar_loop that leaves a non-positive entry out.
RECURSIVE transfer_hbar_loop_skipping(_, _, _, _)
transfer_hbar_loop_skipping(transfers, i, hbar_transfers, total_tinybars) ==
    IF i > Len(transfers)
    THEN Ok([ledger |-> hbar_transfers, total |-> total_tinybars], <<>>)
    ELSE LET tinybars == to_tinybars(transfers[i].amount) IN
         IF tinybars <= 0
         THEN transfer_hbar_loop_skipping(transfers, i + 1, hbar_transfers, total_tinybars)
         ELSE transfer_hbar_loop_skipping(
                  transfers, i + 1,
                  DictSet(hbar_transfers, AccountIdFromString(transfers[i].account_id), tinybars),
                  total_tinybars + tinybars)

\* The loop of normalise_transfer_hbar over parsed_params.transfers:
\*     hbar_transfers[AccountId.from_string(transfer.account_id)] = tinybars
\*     total_tinybars += tinybars
RECURSIVE transfer_hbar_loop(_, _, _, _)
transfer_hbar_loop(transfers, i, hbar_transfers, total_tinybars) ==
    IF i > Len(transfers)
    THEN Ok([ledger |-> hbar_transfers, total |-> total_tinybars], <<>>)
    ELSE LET tinybars == to_tinybars(transfers[i].amount) IN
         IF tinybars <= 0
         THEN Raise("ValueError",
                    <<"Invalid transfer amount: ", ToString(transfers[i].amount)>>, <<>>)
         ELSE transfer_hbar_loop(
                  transfers, i + 1,
                  DictSet(hbar_transfers, AccountIdFromString(transfers[i].account_id), tinybars),
                  total_tinybars + tinybars)

\* HederaParameterNormaliser.normalise_transfer_hbar.
normalise_transfer_hbar(p, ctx, cl) ==
    LET parsed == parse_params_with_schema(p) IN
    IF ~parsed.ok THEN parsed
    ELSE LET source_account_id == resolve_account(p.source_account_id, ctx, cl) IN
    IF ~source_account_id.ok THEN source_account_id
    ELSE LET loop == transfer_hbar_loop(p.transfers, 1, EmptyDict, 0) IN
    IF ~loop.ok THEN loop
    ELSE LET hbar_transfers ==
                 DictSet(loop.value.ledger,
                         AccountIdFromString(source_account_id.value),
                         0 - loop.value.total)
             scheduling_params == schedule_if_present(p, ctx, cl)
         IN
         IF ~scheduling_params.ok THEN scheduling_params
         ELSE Ok([hbar_transfers |-> hbar_transfers,
                  scheduling_params |-> scheduling_params.value,
                  transaction_memo |-> p.transaction_memo],
                 scheduling_params.calls)

\* The loop of normalise_transfer_hbar_with_allowance over the recipients:
\*     current_val = hbar_approved_transfers.get(recipient_id, 0)
\*     hbar_approved_transfers[recipient_id] = current_val + amount_tiny
RECURSIVE transfer_hbar_with_allowance_loop(_, _, _, _)
transfer_hbar_with_allowance_loop(transfers, i, hbar_approved_transfers, total_tinybars) ==
    IF i > Len(transfers)
    THEN Ok([ledger |-> hbar_approved_transfers, total |-> total_tinybars], <<>>)
    ELSE LET amount_tiny == hbar_to_tinybars(transfers[i].amount)
             recipient_id == AccountIdFromString(transfers[i].account_id)
         IN
         IF amount_tiny <= 0
         THEN Raise("ValueError",
                    <<"Invalid transfer amount: ", ToString(transfers[i].amount)>>, <<>>)
         ELSE transfer_hbar_with_allowance_loop(
                  transfers, i + 1,
                  DictSet(hbar_approved_transfers, recipient_id,
                          DictGet(hbar_approved_transfers, recipient_id, 0) + amount_tiny),
                  total_tinybars + amount_tiny)

\* A variant of normalise_transfer_hbar_with_allowance in which the default
\* account stands in for a missing owner.
normalise_transfer_hbar_with_allowance_default_owner(p, ctx, cl) ==
    LET parsed == parse_params_with_schema(p) IN
    IF ~parsed.ok THEN parsed
    ELSE LET source_account_id == resolve_account(p.source_account_id, ctx, cl) IN
    IF ~source_account_id.ok THEN source_account_id
    ELSE LET owner_id == AccountIdFromString(source_account_id.value)
             loop == transfer_hbar_with_allowance_loop(p.transfers, 1, EmptyDict, 0)
         IN
    IF ~loop.ok THEN loop
    ELSE LET hbar_approved_transfers ==
                 DictSet(loop.value.ledger, owner_id,
                         DictGet(loop.value.ledger, owner_id, 0) - loop.value.total)
             scheduling_params == schedule_if_scheduled(p, ctx, cl)
         IN
         IF ~scheduling_params.ok THEN scheduling_params
         ELSE Ok([hbar_approved_transfers |-> hbar_approved_transfers,
                  transaction_memo |-> p.transaction_memo,
                  scheduling_params |-> scheduling_params.value],
                 scheduling_params.calls)

\* A variant of normalise_transfer_hbar_with_allowance whose ledger outlives the
\* call: a run starts from the entries of the run before it.
normalise_transfer_hbar_with_allowance_accumulating(p, ctx, cl) ==
    LET parsed == parse_params_with_schema(p) IN
    IF ~parsed.ok THEN parsed
    ELSE IF ~TruthyStr(p.source_account_id)
    THEN Raise("ValueError", <<"source_account_id is required for allowance transfers">>, <<>>)
    ELSE LET owner_id == AccountIdFromString(Get(p.source_account_id))
             kept == IF normalised.ok THEN normalised.value.hbar_approved_transfers
                     ELSE EmptyDict
             loop == transfer_hbar_with_allowance_loop(p.transfers, 1, kept, 0)
         IN
    IF ~loop.ok THEN loop
    ELSE LET hbar_approved_transfers ==
                 DictSet(loop.value.ledger, owner_id,
                         DictGet(loop.value.ledger, owner_id, 0) - loop.value.total)
             scheduling_params == schedule_if_scheduled(p, ctx, cl)
         IN
         IF ~scheduling_params.ok THEN scheduling_params
         ELSE Ok([hbar_approved_transfers |-> hbar_approved_transfers,
                  transaction_memo |-> p.transaction_memo,
                  scheduling_params |-> scheduling_params.value],
                 scheduling_params.calls)

\* HederaParameterNormaliser.normalise_transfer_hbar_with_allowance.
normalise_transfer_hbar_with_allowance(p, ctx, cl) ==
    LET parsed == parse_params_with_schema(p) IN
    IF ~parsed.ok THEN parsed
    ELSE IF ~TruthyStr(p.source_account_id)
    THEN Raise("ValueError", <<"source_account_id is required for allowance transfers">>, <<>>)
    ELSE LET owner_id == AccountIdFromString(Get(p.source_account_id))
             loop == transfer_hbar_with_allowance_loop(p.transfers, 1, EmptyDict, 0)
         IN
    IF ~loop.ok THEN loop
    ELSE LET hbar_approved_transfers ==
                 DictSet(loop.value.ledger, owner_id,
                         DictGet(loop.value.ledger, owner_id, 0) - loop.value.total)
             scheduling_params == schedule_if_scheduled(p, ctx, cl)
         IN
         IF ~scheduling_params.ok THEN scheduling_params
         ELSE Ok([hbar_approved_transfers |-> hbar_approved_transfers,
                  transaction_memo |-> p.transaction_memo,
                  scheduling_params |-> scheduling_params.value],
                 scheduling_params.calls)

----------------------------------------------------------------------------
(* The other normalisers.                                                  *)

\* Longest memo kept by normalise_create_account.
MemoLimit == 100

\* PublicKey.from_string: either encoding, or the DER text of a key.
from_string(s) ==
    IF s \in Ed25519Strings \/ s = "operator-pub-ed"
    THEN Ok(PublicKeyOf("ED25519", s), <<>>)
    ELSE IF s \in EcdsaStrings \/ s = "operator-pub-ec"
         THEN Ok(PublicKeyOf("ECDSA", s), <<>>)
         ELSE Raise("ValueError", <<"Invalid public key: ", s>>, <<>>)

\* PublicKey.to_string_der.
to_string_der(key) == key.material

TopicIdFromString(s) == [shard |-> 0, realm |-> 0, num |-> 5005]
TokenIdFromString(s) ==
    CASE s = "0.0.7001" -> [shard |-> 0, realm |-> 0, num |-> 7001]
      [] s = "0.0.7002" -> [shard |-> 0, realm |-> 0, num |-> 7002]
      [] OTHER -> [shard |-> 0, realm |-> 0, num |-> 999999999]

\* HederaParameterNormaliser.normalise_create_account.
normalise_create_account(p, ctx, cl, mi) ==
    LET parsed == parse_params_with_schema(p) IN
    IF ~parsed.ok THEN parsed
    ELSE
    LET initial_balance == to_tinybars(p.initial_balance)
        account_memo ==
            IF ~IsNone(p.account_memo) /\ Len(Get(p.account_memo)) > MemoLimit
            THEN Some(SubSeq(Get(p.account_memo), 1, MemoLimit))
            ELSE p.account_memo
        first == IF TruthyStr(p.public_key) THEN p.public_key
                 ELSE IF ~IsNone(cl.operator_private_key)
                      THEN Some(to_string_der(public_key(Get(cl.operator_private_key))))
                      ELSE None
        default_account_id == get_default_account(ctx, cl)
        queried == ~TruthyStr(first) /\ TruthyStr(default_account_id)
        lookup == <<"mirror.get_account">>
        account == mi.get_account[Get(default_account_id)]
    IN
    IF queried /\ ~account.ok
    THEN [account EXCEPT !.calls = lookup]
    ELSE
    LET key_str == IF queried THEN account.value.account_public_key ELSE first
        made == IF queried THEN lookup ELSE <<>>
    IN
    IF ~TruthyStr(key_str)
    THEN Raise("ValueError",
               <<"Unable to resolve public key: no param, mirror node, or client operator key available.">>,
               made)
    ELSE
    LET scheduling_params == schedule_if_scheduled(p, ctx, cl) IN
    IF ~scheduling_params.ok
    THEN [scheduling_params EXCEPT !.calls = made \o scheduling_params.calls]
    ELSE
    LET key == from_string(Get(key_str)) IN
    IF ~key.ok
    THEN [key EXCEPT !.calls = made \o scheduling_params.calls]
    ELSE Ok([memo |-> account_memo,
             initial_balance |-> initial_balance,
             key |-> key.value,
             scheduling_params |-> scheduling_params.value],
            made \o scheduling_params.calls)

\* HederaParameterNormaliser.normalise_get_hbar_balance.
normalise_get_hbar_balance(p, ctx, cl) ==
    LET parsed == parse_params_with_schema(p) IN
    IF ~parsed.ok THEN parsed
    ELSE Ok([account_id |->
                 IF IsNone(p.account_id) THEN get_default_account(ctx, cl)
                 ELSE p.account_id],
            <<>>)

\* HederaParameterNormaliser.normalise_delete_account.
normalise_delete_account(p, ctx, cl) ==
    LET parsed == parse_params_with_schema(p) IN
    IF ~parsed.ok THEN parsed
    ELSE IF Get(p.account_id) \notin AccountStrings
    THEN Raise("ValueError", <<"Account ID must be a Hedera address">>, <<>>)
    ELSE LET transfer_account_id ==
                 IF TruthyStr(p.transfer_account_id) THEN p.transfer_account_id
                 ELSE get_default_account(ctx, cl)
         IN
         IF ~TruthyStr(transfer_account_id)
         THEN Raise("ValueError", <<"Could not determine transfer account ID">>, <<>>)
         ELSE Ok([account_id |-> AccountIdFromString(Get(p.account_id)),
                  transfer_account_id |-> AccountIdFromString(Get(transfer_account_id))],
                 <<>>)

\* HederaParameterNormaliser.normalise_update_account.
normalise_update_account(p, ctx, cl) ==
    LET parsed == parse_params_with_schema(p) IN
    IF ~parsed.ok THEN parsed
    ELSE LET resolved == resolve_account(p.account_id, ctx, cl) IN
    IF ~resolved.ok THEN resolved
    ELSE LET scheduling_params == schedule_if_scheduled(p, ctx, cl) IN
         IF ~scheduling_params.ok THEN scheduling_params
         ELSE Ok([account_params |->
                      [account_id |-> AccountIdFromString(resolved.value),
                       account_memo |-> p.account_memo],
                  scheduling_params |-> scheduling_params.value],
                 scheduling_params.calls)

\* HederaParameterNormaliser.normalise_submit_topic_message.
normalise_submit_topic_message(p, ctx, cl) ==
    LET parsed == parse_params_with_schema(p) IN
    IF ~parsed.ok THEN parsed
    ELSE LET scheduling_params == schedule_if_scheduled(p, ctx, cl) IN
         IF ~scheduling_params.ok THEN scheduling_params
         ELSE Ok([topic_id |-> TopicIdFromString(p.topic_id),
                  message |-> p.message,
                  transaction_memo |-> p.transaction_memo,
                  scheduling_params |-> scheduling_params.value],
                 scheduling_params.calls)

\* HederaParameterNormaliser.normalise_create_topic_params.
normalise_create_topic_params(p, ctx, cl) ==
    LET parsed == parse_params_with_schema(p) IN
    IF ~parsed.ok THEN parsed
    ELSE IF ~TruthyStr(get_default_account(ctx, cl))
    THEN Raise("ValueError", <<"Could not determine default account ID">>, <<>>)
    ELSE LET account_public_key == get_default_public_key(ctx, cl) IN
    IF ~account_public_key.ok THEN account_public_key
    ELSE Ok([memo |-> p.topic_memo,
             transaction_memo |-> p.transaction_memo,
             submit_key |-> IF p.is_submit_key THEN Some(account_public_key.value) ELSE None,
             admin_key |-> Some(account_public_key.value)],
            <<>>)

\* Gas given to the ERC-20 factory call.
Erc20FactoryGas == 3000000

\* HederaParameterNormaliser.normalise_create_erc20_params.
normalise_create_erc20_params(p, ctx, cl) ==
    LET parsed == parse_params_with_schema(p) IN
    IF ~parsed.ok THEN parsed
    ELSE LET scheduling_params == schedule_if_scheduled(p, ctx, cl) IN
         IF ~scheduling_params.ok THEN scheduling_params
         ELSE Ok([contract_id |-> [shard |-> 0, realm |-> 0, num |-> 9009],
                  function_parameters |-> <<"deployToken", p.token_name, p.token_symbol>>,
                  gas |-> Erc20FactoryGas,
                  scheduling_params |-> scheduling_params.value],
                 scheduling_params.calls)

\* HederaParameterNormaliser.normalise_dissociate_token_params.
normalise_dissociate_token_params(p, ctx, cl) ==
    LET parsed == parse_params_with_schema(p) IN
    IF ~parsed.ok THEN parsed
    ELSE
    LET account_id_str ==
            IF ~TruthyStr(p.account_id) /\ ~IsNone(cl.operator_account_id)
            THEN Some(AccountIdToString(Get(cl.operator_account_id)))
            ELSE p.account_id
    IN
    IF ~TruthyStr(account_id_str)
    THEN Raise("ValueError", <<"Account ID is required for token dissociation.">>, <<>>)
    ELSE LET scheduling_params == schedule_if_scheduled(p, ctx, cl) IN
         IF ~scheduling_params.ok THEN scheduling_params
         ELSE Ok([token_ids |-> [i \in 1..Len(p.token_ids) |-> TokenIdFromString(p.token_ids[i])],
                  account_id |-> AccountIdFromString(Get(account_id_str)),
                  transaction_memo |-> p.transaction_memo,
                  scheduling_params |-> scheduling_params.value],
                 scheduling_params.calls)

\* HederaParameterNormaliser.normalise_update_topic.
normalise_update_topic(p, ctx, cl) ==
    LET parsed == parse_params_with_schema(p) IN
    IF ~parsed.ok THEN parsed
    ELSE
    LET user_public_key ==
            IF ~IsNone(cl.operator_private_key)
            THEN Some(public_key(Get(cl.operator_private_key)))
            ELSE None
        admin_key == resolve_key(p.admin_key, user_public_key)
    IN
    IF ~admin_key.ok THEN admin_key
    ELSE LET submit_key == resolve_key(p.submit_key, user_public_key) IN
         IF ~submit_key.ok THEN submit_key
         ELSE Ok([topic_id |-> TopicIdFromString(p.topic_id),
                  memo |-> p.topic_memo,
                  admin_key |-> admin_key.value,
                  submit_key |-> submit_key.value,
                  auto_renew_account |->
                      IF TruthyStr(p.auto_renew_account_id)
                      THEN Some(AccountIdFromString(Get(p.auto_renew_account_id)))
                      ELSE None,
                  expiration_time |-> p.expiration_time],
                 <<>>)

\* HederaParameterNormaliser.normalise_get_token_info.
normalise_get_token_info(p) ==
    LET parsed == parse_params_with_schema(p) IN
    IF ~parsed.ok THEN parsed
    ELSE IF ~TruthyStr(p.token_id)
         THEN Raise("ValueError", <<"Token ID is required to fetch token info.">>, <<>>)
         ELSE Ok(p, <<>>)

----------------------------------------------------------------------------
(* The transaction record query: transaction ids as sequences of           *)
(* characters, matched as Python's re module matches them.                 *)

\* \d
Digits == {"0", "1", "2", "3", "4", "5", "6", "7", "8", "9"}

\* The index after the longest run of digits of s that starts at i: \d+.
RECURSIVE RunEnd(_, _)
RunEnd(s, i) == IF i <= Len(s) /\ s[i] \in Digits THEN RunEnd(s, i + 1) ELSE i

\* re.match of a pattern of \d+ items and literal characters against s from
\* index i: the index after the match, 0 when there is none.
RECURSIVE MatchFrom(_, _, _)
MatchFrom(pattern, s, i) ==
    IF pattern = <<>> THEN i
    ELSE IF Head(pattern) = "\\d+"
    THEN LET j == RunEnd(s, i) IN
         IF j = i THEN 0 ELSE MatchFrom(Tail(pattern), s, j)
    ELSE IF i <= Len(s) /\ s[i] = Head(pattern)
         THEN MatchFrom(Tail(pattern), s, i + 1)
         ELSE 0

\* $ without re.MULTILINE: the end of the string, or just before a newline
\* that ends the string.
AtDollar(s, i) == i = Len(s) + 1 \/ (i = Len(s) /\ s[i] = "\n")

\* r"^\d+\.\d+\.\d+-\d+-\d+$"
mirror_node_style_regex == <<"\\d+", ".", "\\d+", ".", "\\d+", "-", "\\d+", "-", "\\d+">>
\* r"^(\d+\.\d+\.\d+)@(\d+)\.(\d+)$"
sdk_style_regex == <<"\\d+", ".", "\\d+", ".", "\\d+", "@", "\\d+", ".", "\\d+">>

\* regex.match(s): whether the pattern matches.
ReMatch(pattern, s) ==
    LET e == MatchFrom(pattern, s, 1) IN e /= 0 /\ AtDollar(s, e)

\* match.groups() of sdk_style_regex.
sdk_style_groups(s) ==
    LET at == MatchFrom(SubSeq(sdk_style_regex, 1, 5), s, 1)
        dot == RunEnd(s, at + 1)
        end == RunEnd(s, dot + 1)
    IN [account_id |-> SubSeq(s, 1, at - 1),
        seconds |-> SubSeq(s, at + 1, dot - 1),
        nanos |-> SubSeq(s, dot + 1, end - 1)]

\* HederaParameterNormaliser.normalise_get_transaction_record_params.
normalise_get_transaction_record_params(p) ==
    LET parsed == parse_params_with_schema(p) IN
    IF ~parsed.ok THEN parsed
    ELSE IF p.transaction_id = <<>>
    THEN Raise("ValueError", <<"transactionId is required">>, <<>>)
    ELSE IF ReMatch(mirror_node_style_regex, p.transaction_id)
    THEN Ok([transaction_id |-> p.transaction_id, nonce |-> p.nonce], <<>>)
    ELSE IF ~ReMatch(sdk_style_regex, p.transaction_id)
    THEN Raise("ValueError",
               <<"Invalid transactionId format: ">> \o p.transaction_id, <<>>)
    ELSE LET g == sdk_style_groups(p.transaction_id) IN
         Ok([transaction_id |-> g.account_id \o <<"-">> \o g.seconds \o <<"-">> \o g.nanos,
             nonce |-> p.nonce],
            <<>>)

----------------------------------------------------------------------------
(* The token normalisers: create fungible token and mint fungible token.   *)

\* Largest number of decimals of a token drawn in the initial states.
MaxDecimals == 3

RECURSIVE Pow10(_)
Pow10(d) == IF d <= 0 THEN 1 ELSE 10 * Pow10(d - 1)

\* Default max supply of a finite token, in display units.
DefaultMaxSupply == 1000000

\* A variant of CreateFungibleTokenParameters whose supply_type defaults to 0.
CreateFungibleTokenParametersInfiniteDefault(p) ==
    [token_name |-> p.token_name,
     token_symbol |-> p.token_symbol,
     initial_supply |-> IF IsNone(p.initial_supply) THEN 0 ELSE Get(p.initial_supply),
     supply_type |-> IF IsNone(p.supply_type) THEN 0 ELSE Get(p.supply_type),
     max_supply |-> p.max_supply,
     decimals |-> IF IsNone(p.decimals) THEN 0 ELSE Get(p.decimals),
     treasury_account_id |-> p.treasury_account_id,
     is_supply_key |-> p.is_supply_key,
     scheduling_params |-> p.scheduling_params]

\* CreateFungibleTokenParameters: the schema's defaults for the fields the
\* caller left out (initial_supply = 0, supply_type = 1, decimals = 0).
CreateFungibleTokenParameters(p) ==
    [token_name |-> p.token_name,
     token_symbol |-> p.token_symbol,
     initial_supply |-> IF IsNone(p.initial_supply) THEN 0 ELSE Get(p.initial_supply),
     supply_type |-> IF IsNone(p.supply_type) THEN 1 ELSE Get(p.supply_type),
     max_supply |-> p.max_supply,
     decimals |-> IF IsNone(p.decimals) THEN 0 ELSE Get(p.decimals),
     treasury_account_id |-> p.treasury_account_id,
     is_supply_key |-> p.is_supply_key,
     scheduling_params |-> p.scheduling_params]

\* A variant of supply_key_of with no fallback: the key the mirror service
\* holds, or none.
supply_key_of_mirror_only(treasury, cl, mi) ==
    LET account == mi.get_account[treasury] IN
    IF account.ok /\ TruthyStr(account.value.account_public_key)
       /\ from_string(Get(account.value.account_public_key)).ok
    THEN Some(from_string(Get(account.value.account_public_key)).value)
    ELSE None

\* The supply key of a new token: the key the mirror service holds for the
\* treasury account, else the operator's public key.
supply_key_of(treasury, cl, mi) ==
    LET account == mi.get_account[treasury] IN
    IF account.ok /\ TruthyStr(account.value.account_public_key)
       /\ from_string(Get(account.value.account_public_key)).ok
    THEN Some(from_string(Get(account.value.account_public_key)).value)
    ELSE IF ~IsNone(cl.operator_private_key)
         THEN Some(public_key(Get(cl.operator_private_key)))
         ELSE None

\* A variant of create_supply in which a finite token with no max supply gets none.
create_supply_no_default(q) ==
    LET scale == Pow10(q.decimals)
        initial == q.initial_supply * scale
    IN
    IF q.supply_type = 1 \/ ~IsNone(q.max_supply)
    THEN [supply_type |-> "FINITE",
          max_supply |-> IF IsNone(q.max_supply) THEN 0 ELSE Get(q.max_supply) * scale,
          initial_supply |-> initial]
    ELSE [supply_type |-> "INFINITE", max_supply |-> 0, initial_supply |-> initial]

\* The supply of a new token in base units: both supplies scaled by
\* 10^decimals; a finite token gets the default max supply when none is given
\* and an initial supply of one display unit when it would be zero.
create_supply(q) ==
    LET scale == Pow10(q.decimals)
        initial == q.initial_supply * scale
    IN
    IF q.supply_type = 1 \/ ~IsNone(q.max_supply)
    THEN [supply_type |-> "FINITE",
          max_supply |-> (IF IsNone(q.max_supply) THEN DefaultMaxSupply
                          ELSE Get(q.max_supply)) * scale,
          initial_supply |-> IF initial = 0 THEN scale ELSE initial]
    ELSE [supply_type |-> "INFINITE", max_supply |-> 0, initial_supply |-> initial]

\* A variant of create_supply_error that accepts every supply.
create_supply_error_none(q) == <<>>

\* The supply constraint the parameters violate, <<>> when they violate none.
create_supply_error(q) ==
    IF q.decimals < 0
    THEN <<"Decimals must be a ", "non-negative", " integer">>
    ELSE IF q.initial_supply < 0
    THEN <<"Initial supply must be a ", "non-negative", " integer">>
    ELSE IF q.supply_type = 0 /\ ~IsNone(q.max_supply)
    THEN <<"Cannot set max supply and ", "INFINITE", " supply type">>
    ELSE LET supply == create_supply(q) IN
         IF supply.supply_type = "FINITE" /\ supply.initial_supply > supply.max_supply
         THEN <<"Initial supply (", ToString(supply.initial_supply), ") ",
                "cannot exceed max", " supply (", ToString(supply.max_supply), ")">>
         ELSE <<>>

\* HederaParameterNormaliser.normalise_create_fungible_token_params.
normalise_create_fungible_token_params(p, ctx, cl, mi) ==
    LET parsed == parse_params_with_schema(p) IN
    IF ~parsed.ok THEN parsed
    ELSE
    LET q == CreateFungibleTokenParameters(p)
        violated == create_supply_error(q)
    IN
    IF violated /= <<>> THEN Raise("ValueError", violated, <<>>)
    ELSE
    LET supply == create_supply(q)
        treasury ==
            IF TruthyStr(q.treasury_account_id) THEN q.treasury_account_id
            ELSE IF ~IsNone(cl.operator_account_id)
                 THEN Some(AccountIdToString(Get(cl.operator_account_id)))
                 ELSE None
    IN
    IF IsNone(treasury)
    THEN Raise("ValueError", <<"Must include treasury account ID">>, <<>>)
    ELSE
    LET with_supply_key ==
            IF IsNone(q.is_supply_key) THEN supply.supply_type = "FINITE"
            ELSE Get(q.is_supply_key)
        made == IF with_supply_key THEN <<"mirror.get_account">> ELSE <<>>
        keys == IF with_supply_key
                THEN Some([supply_key |-> supply_key_of(Get(treasury), cl, mi)])
                ELSE None
        scheduling_params == schedule_if_scheduled(p, ctx, cl)
    IN
    IF ~scheduling_params.ok
    THEN [scheduling_params EXCEPT !.calls = made \o scheduling_params.calls]
    ELSE Ok([token_params |->
                 [token_name |-> q.token_name,
                  token_symbol |-> q.token_symbol,
                  decimals |-> q.decimals,
                  initial_supply |-> supply.initial_supply,
                  max_supply |-> supply.max_supply,
                  supply_type |-> supply.supply_type,
                  treasury_account_id |-> AccountIdFromString(Get(treasury)),
                  auto_renew_account_id |->
                      IF TruthyStr(get_default_account(ctx, cl))
                      THEN Some(AccountIdFromString(Get(get_default_account(ctx, cl))))
                      ELSE None],
             keys |-> keys,
             scheduling_params |-> scheduling_params.value],
            made \o scheduling_params.calls)

\* The token ids the mirror service knows.
TokenStrings == {"0.0.7001", "0.0.5678"}

\* int(s) on the decimal string the mirror service returns for "decimals".
IntOfString(s) == CHOOSE d \in 0..MaxDecimals : ToString(d) = s

\* A variant of RoundToInt that drops the fraction.
RoundToIntTruncating(num, den) == num \div den

\* round(num / den) for num >= 0: the nearest integer, a tie to the even one.
RoundToInt(num, den) ==
    LET q == num \div den
        r == num % den
    IN IF 2 * r < den THEN q
       ELSE IF 2 * r > den THEN q + 1
       ELSE IF q % 2 = 0 THEN q ELSE q + 1

\* A variant of token_decimals that takes a missing "decimals" for zero.
token_decimals_or_zero(token_info) ==
    IF IsNone(token_info.decimals) THEN Ok(0, <<>>)
    ELSE Ok(IntOfString(Get(token_info.decimals)), <<>>)

\* The decimals of the token info the mirror service returned.
token_decimals(token_info) ==
    IF IsNone(token_info.decimals)
    THEN Raise("ValueError", <<"Unable to retrieve token decimals">>, <<>>)
    ELSE Ok(IntOfString(Get(token_info.decimals)), <<>>)

\* HederaParameterNormaliser.normalise_mint_fungible_token_params. The amount
\* is a count of 1/AmountScale display units.
normalise_mint_fungible_token_params(p, ctx, cl, mi) ==
    LET parsed == parse_params_with_schema(p) IN
    IF ~parsed.ok THEN parsed
    ELSE
    LET token_id == Get(p.token_id)
        token_info == mi.get_token_info[token_id]
        made == <<"mirror.get_token_info">>
    IN
    IF ~token_info.ok THEN [token_info EXCEPT !.calls = made]
    ELSE
    LET decimals == token_decimals(token_info.value) IN
    IF ~decimals.ok THEN [decimals EXCEPT !.calls = made]
    ELSE
    LET scheduling_params == schedule_if_scheduled(p, ctx, cl) IN
    IF ~scheduling_params.ok
    THEN [scheduling_params EXCEPT !.calls = made \o scheduling_params.calls]
    ELSE Ok([token_id |-> TokenIdFromString(token_id),
             amount |-> RoundToInt(p.amount * Pow10(decimals.value), AmountScale),
             scheduling_params |-> scheduling_params.value],
            made \o scheduling_params.calls)

----------------------------------------------------------------------------
(* HederaBuilder.                                                          *)

\* A transaction as built: its SDK type, its fields, its memo and, for a
\* schedule-create transaction, the schedule parameters and the inner one.
PlainTx(type, fields) ==
    [type |-> type, fields |-> fields, transaction_memo |-> None,
     schedule |-> None, scheduled_transaction |-> None]

\* getattr(params, name, None).
GetAttr(r, name) == IF name \in DOMAIN r THEN r[name] ELSE None

\* if getattr(params, "transaction_memo", None): tx.set_transaction_memo(...)
WithMemo(t, n) ==
    LET memo == GetAttr(n, "transaction_memo") IN
    IF ~IsNone(memo) /\ Get(memo) /= <<>>
    THEN [t EXCEPT !.transaction_memo = memo]
    ELSE t

\* A variant of maybe_wrap_in_schedule that wraps whatever it is given.
maybe_wrap_in_schedule_always(t, scheduling_params) ==
    [type |-> "ScheduleCreateTransaction", fields |-> <<>>,
     transaction_memo |-> None,
     schedule |-> scheduling_params, scheduled_transaction |-> Some(t)]

\* HederaBuilder.maybe_wrap_in_schedule.
maybe_wrap_in_schedule(t, scheduling_params) ==
    IF ~IsNone(scheduling_params)
    THEN [type |-> "ScheduleCreateTransaction", fields |-> <<>>,
          transaction_memo |-> None,
          schedule |-> scheduling_params, scheduled_transaction |-> Some(t)]
    ELSE t

\* HederaBuilder.transfer_hbar.
build_transfer_hbar(n) ==
    maybe_wrap_in_schedule(
        WithMemo(PlainTx("TransferTransaction",
                         [hbar_transfers |-> n.hbar_transfers, approved |-> FALSE]), n),
        GetAttr(n, "scheduling_params"))

\* A variant of AccountLines that adds no line for a debit.
RECURSIVE AccountLinesCreditsOnly(_, _)
AccountLinesCreditsOnly(d, keys) ==
    IF keys = {} THEN <<>>
    ELSE LET k == CHOOSE x \in keys : TRUE IN
         (IF d[k] < 0 THEN <<>> ELSE <<[account_id |-> k, amount |-> d[k]]>>)
             \o AccountLinesCreditsOnly(d, keys \ {k})

\* for account_id, amount in d.items(): tx.add_..._transfer(account_id, amount):
\* the lines added to the transaction, one call after the other.
RECURSIVE AccountLines(_, _)
AccountLines(d, keys) ==
    IF keys = {} THEN <<>>
    ELSE LET k == CHOOSE x \in keys : TRUE IN
         <<[account_id |-> k, amount |-> d[k]]>> \o AccountLines(d, keys \ {k})

\* for token_id, transfers in d.items(): for account_id, amount in
\* transfers.items(): tx.add_..._token_transfer(token_id, account_id, amount).
RECURSIVE TokenLines(_, _)
TokenLines(d, tokens) ==
    IF tokens = {} THEN <<>>
    ELSE LET t == CHOOSE x \in tokens : TRUE
             lines == AccountLines(d[t], DOMAIN d[t])
         IN [i \in 1..Len(lines) |->
                [token_id |-> t, account_id |-> lines[i].account_id,
                 amount |-> lines[i].amount]]
                \o TokenLines(d, tokens \ {t})

\* HederaBuilder.transfer_hbar_with_allowance.
build_transfer_hbar_with_allowance(n) ==
    WithMemo(PlainTx("TransferTransaction",
                     [hbar_transfers |-> AccountLines(n.hbar_approved_transfers,
                                                      DOMAIN n.hbar_approved_transfers),
                      approved |-> TRUE]), n)

\* HederaBuilder.transfer_fungible_token_with_allowance.
build_transfer_fungible_token_with_allowance(n) ==
    maybe_wrap_in_schedule(
        WithMemo(PlainTx("TransferTransaction",
                         [token_transfers |-> TokenLines(n.ft_approved_transfer,
                                                         DOMAIN n.ft_approved_transfer),
                          approved |-> TRUE]), n),
        GetAttr(n, "scheduling_params"))

\* HederaBuilder.transfer_fungible_token.
build_transfer_fungible_token(n) ==
    maybe_wrap_in_schedule(
        WithMemo(PlainTx("TransferTransaction",
                         [token_transfers |-> TokenLines(n.ft_transfers, DOMAIN n.ft_transfers),
                          approved |-> FALSE]), n),
        GetAttr(n, "scheduling_params"))

\* HederaBuilder.transfer_non_fungible_token_with_allowance.
build_transfer_non_fungible_token_with_allowance(n) ==
    maybe_wrap_in_schedule(
        WithMemo(PlainTx("TransferTransaction",
                         [nft_transfers |-> n.nft_approved_transfer, approved |-> TRUE]), n),
        GetAttr(n, "scheduling_params"))

\* HederaBuilder.create_fungible_token.
build_create_fungible_token(n) ==
    maybe_wrap_in_schedule(
        PlainTx("TokenCreateTransaction", [token_params |-> n.token_params, keys |-> n.keys]),
        GetAttr(n, "scheduling_params"))

\* HederaBuilder.mint_fungible_token.
build_mint_fungible_token(n) ==
    maybe_wrap_in_schedule(
        PlainTx("TokenMintTransaction", [token_id |-> n.token_id, amount |-> n.amount]),
        GetAttr(n, "scheduling_params"))

\* HederaBuilder.dissociate_token.
build_dissociate_token(n) ==
    maybe_wrap_in_schedule(
        WithMemo(PlainTx("TokenDissociateTransaction",
                         [account_id |-> n.account_id, token_ids |-> n.token_ids]), n),
        GetAttr(n, "scheduling_params"))

\* HederaBuilder.create_account.
build_create_account(n) ==
    maybe_wrap_in_schedule(
        PlainTx("AccountCreateTransaction",
                [key |-> n.key, initial_balance |-> n.initial_balance, memo |-> n.memo]),
        GetAttr(n, "scheduling_params"))

\* HederaBuilder.update_account.
build_update_account(n) ==
    maybe_wrap_in_schedule(
        PlainTx("AccountUpdateTransaction", n.account_params),
        GetAttr(n, "scheduling_params"))

\* HederaBuilder.submit_topic_message.
build_submit_topic_message(n) ==
    maybe_wrap_in_schedule(
        WithMemo(PlainTx("TopicMessageSubmitTransaction",
                         [topic_id |-> n.topic_id, message |-> n.message]), n),
        GetAttr(n, "scheduling_params"))

\* HederaBuilder.execute_transaction.
build_execute_transaction(n) ==
    maybe_wrap_in_schedule(
        PlainTx("ContractExecuteTransaction",
                [contract_id |-> n.contract_id, gas |-> n.gas,
                 function_parameters |-> n.function_parameters]),
        GetAttr(n, "scheduling_params"))

\* HederaBuilder.delete_account.
build_delete_account(n) == PlainTx("AccountDeleteTransaction", n)

\* HederaBuilder.update_topic.
build_update_topic(n) == PlainTx("TopicUpdateTransaction", n)

\* HederaBuilder.create_topic.
build_create_topic(n) ==
    WithMemo(PlainTx("TopicCreateTransaction",
                     [memo |-> n.memo, submit_key |-> n.submit_key,
                      admin_key |-> n.admin_key]),
             n)

----------------------------------------------------------------------------
(* The pipeline: normalise, then build.                                    *)

\* The normaliser each operation's tool calls.
Normalise(o, p, ctx, cl, mi) ==
    CASE o = "transfer_hbar" -> normalise_transfer_hbar(p, ctx, cl)
      [] o = "transfer_hbar_with_allowance" -> normalise_transfer_hbar_with_allowance(p, ctx, cl)
      [] o = "create_account" -> normalise_create_account(p, ctx, cl, mi)
      [] o = "update_account" -> normalise_update_account(p, ctx, cl)
      [] o = "delete_account" -> normalise_delete_account(p, ctx, cl)
      [] o = "get_hbar_balance" -> normalise_get_hbar_balance(p, ctx, cl)
      [] o = "submit_topic_message" -> normalise_submit_topic_message(p, ctx, cl)
      [] o = "create_erc20" -> normalise_create_erc20_params(p, ctx, cl)
      [] o = "dissociate_token" -> normalise_dissociate_token_params(p, ctx, cl)
      [] o = "update_topic" -> normalise_update_topic(p, ctx, cl)
      [] o = "create_topic" -> normalise_create_topic_params(p, ctx, cl)
      [] o = "get_transaction_record" -> normalise_get_transaction_record_params(p)

\* The builder each operation's tool calls on the normalised parameters. The
\* HBAR balance query builds no transaction.
Build(o, n) ==
    CASE o = "transfer_hbar" -> build_transfer_hbar(n)
      [] o = "transfer_hbar_with_allowance" -> build_transfer_hbar_with_allowance(n)
      [] o = "create_account" -> build_create_account(n)
      [] o = "update_account" -> build_update_account(n)
      [] o = "delete_account" -> build_delete_account(n)
      [] o = "get_hbar_balance" -> PlainTx("CryptoGetAccountBalanceQuery", n)
      [] o = "submit_topic_message" -> build_submit_topic_message(n)
      [] o = "create_erc20" -> build_execute_transaction(n)
      [] o = "dissociate_token" -> build_dissociate_token(n)
      [] o = "update_topic" -> build_update_topic(n)
      [] o = "create_topic" -> build_create_topic(n)
      [] o = "transfer_fungible_token_with_allowance" ->
             build_transfer_fungible_token_with_allowance(n)
      [] o = "transfer_fungible_token" -> build_transfer_fungible_token(n)

NoTx == PlainTx("", <<>>)
NoResult == [ok |-> FALSE, value |-> None, error |-> NoError, calls |-> <<>>]
NoResponse == [human_message |-> <<>>, error |-> None, raw |-> None, extra |-> None]

\* The parameters every operation starts from; each specification below varies
\* the fields its operations read.
DefaultParams ==
    [issues |-> <<>>,
     source_account_id |-> None,
     account_id |-> None,
     transfer_account_id |-> None,
     transfers |-> <<[account_id |-> "0.0.1002", amount |-> AmountScale]>>,
     scheduling_params |-> None,
     transaction_memo |-> None,
     account_memo |-> None,
     topic_memo |-> None,
     public_key |-> None,
     initial_balance |-> 0,
     admin_key |-> RawNone,
     submit_key |-> RawNone,
     auto_renew_account_id |-> None,
     expiration_time |-> None,
     token_ids |-> <<"0.0.7001">>,
     token_id |-> None,
     topic_id |-> "0.0.5005",
     message |-> "hello",
     token_name |-> "MyToken",
     token_symbol |-> "MTK",
     initial_supply |-> None,
     supply_type |-> None,
     max_supply |-> None,
     decimals |-> None,
     treasury_account_id |-> None,
     is_supply_key |-> None,
     amount |-> 5 * AmountScale,
     is_submit_key |-> FALSE,
     transaction_id |-> <<"0", ".", "0", ".", "2", "@", "1", ".", "5">>,
     nonce |-> None]

DefaultContext == [account_id |-> None]
DefaultClient ==
    [operator_account_id |-> Some(AccountIdFromString("0.0.2")),
     operator_private_key |-> Some("operator-priv-ed")]
DefaultMirror ==
    [get_account |-> [a \in AccountStrings |->
                         Ok([account_public_key |-> Some("ed25519-a")], <<>>)],
     get_token_info |-> [t \in TokenStrings |-> Ok([decimals |-> Some("2")], <<>>)]]

\* The normaliser runs on the raw parameters.
DoNormalise ==
    /\ pc = "start"
    /\ LET r == Normalise(op, params, context, client, mirror) IN
       /\ normalised' = r
       /\ calls' = calls \o r.calls
       /\ pc' = IF r.ok THEN "normalised" ELSE "failed"
    /\ UNCHANGED <<op, params, context, client, mirror, tx, response, exc>>

\* The builder runs on the normalised parameters.
DoBuild ==
    /\ pc = "normalised"
    /\ tx' = Build(op, normalised.value)
    /\ pc' = "built"
    /\ UNCHANGED <<op, params, context, client, mirror, normalised, response, exc, calls>>

NextPipeline == DoNormalise \/ DoBuild

InitRest ==
    /\ pc = "start"
    /\ normalised = NoResult
    /\ tx = NoTx
    /\ response = NoResponse
    /\ exc = NoError
    /\ calls = <<>>

----------------------------------------------------------------------------
(* Specifications of the normalisers and builders: the inputs are drawn in *)
(* the initial state, the actions apply the normaliser and the builder.    *)

Entries == [account_id : AccountStrings, amount : Amounts]
TransferLists == UNION {[1..n -> Entries] : n \in 1..MaxTransfers}

\* Transfer HBAR and transfer HBAR with allowance, over every list of entries.
InitTransfer ==
    /\ op \in {"transfer_hbar", "transfer_hbar_with_allowance"}
    /\ \E src \in {None, Some("")} \cup {Some(a) : a \in AccountStrings}, ts \in TransferLists :
           params = [DefaultParams EXCEPT !.source_account_id = src, !.transfers = ts]
    /\ context \in {[account_id |-> None], [account_id |-> Some("0.0.1001")]}
    /\ client = DefaultClient
    /\ mirror = DefaultMirror
    /\ InitRest

SpecTransfer == InitTransfer /\ [][NextPipeline]_vars

RawKeys == {RawNone, RawBool(TRUE), RawBool(FALSE)} \cup {RawStr(k) : k \in KeyStrings}
OperatorKeys == {None} \cup {Some(k) : k \in PrivateKeys}

\* Update topic, over every admin key, submit key and operator key.
InitTopic ==
    /\ op = "update_topic"
    /\ \E ak \in RawKeys, sk \in RawKeys :
           params = [DefaultParams EXCEPT !.admin_key = ak, !.submit_key = sk]
    /\ context = DefaultContext
    /\ \E k \in OperatorKeys : client = [DefaultClient EXCEPT !.operator_private_key = k]
    /\ mirror = DefaultMirror
    /\ InitRest

SpecTopic == InitTopic /\ [][NextPipeline]_vars

SchedulingBlocks ==
    [is_scheduled : BOOLEAN,
     admin_key : {RawNone, RawBool(TRUE), RawBool(FALSE), RawStr("ecdsa-a"), RawStr("garbage")},
     payer_account_id : {None, Some("0.0.1002")},
     expiration_time : {None} \cup {Some(t) : t \in ExpirationTimes},
     wait_for_expiry : {None, Some(TRUE), Some(FALSE)}]

SchedulableOps ==
    {"transfer_hbar", "transfer_hbar_with_allowance", "create_account", "update_account",
     "submit_topic_message", "create_erc20", "dissociate_token"}

\* The schedulable operations, over every scheduling block.
InitSchedule ==
    /\ op \in SchedulableOps
    /\ \E sp \in {None} \cup {Some(b) : b \in SchedulingBlocks} :
           params = [DefaultParams EXCEPT !.source_account_id = Some("0.0.1001"),
                                          !.scheduling_params = sp]
    /\ context = DefaultContext
    /\ \E k \in OperatorKeys : client = [DefaultClient EXCEPT !.operator_private_key = k]
    /\ mirror = DefaultMirror
    /\ InitRest

SpecSchedule == InitSchedule /\ [][NextPipeline]_vars

AccountOps ==
    {"transfer_hbar", "update_account", "dissociate_token", "get_hbar_balance", "delete_account"}

\* The optional account field of each operation of AccountOps.
ExplicitAccount(o, p) ==
    CASE o = "transfer_hbar" -> p.source_account_id
      [] o = "delete_account" -> p.transfer_account_id
      [] OTHER -> p.account_id

WithExplicitAccount(o, a) ==
    CASE o = "transfer_hbar" -> [DefaultParams EXCEPT !.source_account_id = a]
      [] o = "delete_account" ->
             [DefaultParams EXCEPT !.account_id = Some("0.0.1001"), !.transfer_account_id = a]
      [] OTHER -> [DefaultParams EXCEPT !.account_id = a]

\* The operations with an optional account, over every combination of an
\* explicit account, a context account and an operator account.
InitAccount ==
    /\ op \in AccountOps
    /\ \E a \in {None} \cup {Some(x) : x \in AccountStrings} :
           params = WithExplicitAccount(op, a)
    /\ context \in {[account_id |-> a] : a \in {None, Some("0.0.1001"), Some("0.0.1002")}}
    /\ \E o \in {None, Some(AccountIdFromString("0.0.2")), Some(AccountIdFromString("0.0.1002"))} :
           client = [DefaultClient EXCEPT !.operator_account_id = o]
    /\ mirror = DefaultMirror
    /\ InitRest

SpecAccount == InitAccount /\ [][NextPipeline]_vars

\* A text of n characters.
Text(n) == [i \in 1..n |-> <<"a", "b", "c">>[(i % 3) + 1]]

\* Memos: none, empty, short, of exactly the limit, and longer.
Memos ==
    {None, Some(Text(0)), Some(Text(5)), Some(Text(MemoLimit)),
     Some(Text(MemoLimit + 1)), Some(Text(MemoLimit + 20))}

MemoOps ==
    {"create_account", "transfer_hbar", "transfer_hbar_with_allowance",
     "submit_topic_message", "create_topic", "update_topic", "dissociate_token"}

\* The normalisers that take a memo, over every memo.
InitMemo ==
    /\ op \in MemoOps
    /\ \E account_memo \in Memos, transaction_memo \in Memos, topic_memo \in Memos :
           params = [DefaultParams EXCEPT !.account_memo = account_memo,
                                          !.transaction_memo = transaction_memo,
                                          !.topic_memo = topic_memo,
                                          !.source_account_id = Some("0.0.1001")]
    /\ context = DefaultContext
    /\ client = DefaultClient
    /\ mirror = DefaultMirror
    /\ InitRest

SpecMemo == InitMemo /\ [][NextPipeline]_vars

\* What the mirror node answers to get_account: an account with a key, an
\* account without one, and a failed request.
AccountAnswers ==
    {Ok([account_public_key |-> Some("ed25519-a")], <<>>),
     Ok([account_public_key |-> Some("ecdsa-b")], <<>>),
     Ok([account_public_key |-> None], <<>>),
     Raise("Exception", <<"Failed to fetch account">>, <<>>)}

\* Create account, over every source of the new account's key.
InitCreateAccount ==
    /\ op = "create_account"
    /\ \E k \in {None, Some(""), Some("ed25519-b"), Some("ecdsa-a")} :
           params = [DefaultParams EXCEPT !.public_key = k]
    /\ context \in {[account_id |-> a] : a \in {None, Some("0.0.1001")}}
    /\ \E o \in {None, Some(AccountIdFromString("0.0.2"))}, k \in OperatorKeys :
           client = [operator_account_id |-> o, operator_private_key |-> k]
    /\ \E answers \in [AccountStrings -> AccountAnswers] :
           mirror = [DefaultMirror EXCEPT !.get_account = answers]
    /\ InitRest

SpecCreateAccount == InitCreateAccount /\ [][NextPipeline]_vars

\* The normaliser runs a second time on the same parameters, context, client
\* and mirror answers.
DoRerun ==
    /\ pc = "normalised"
    /\ LET r == Normalise(op, params, context, client, mirror) IN
       /\ normalised' = r
       /\ calls' = calls \o r.calls
    /\ pc' = "normalised again"
    /\ UNCHANGED <<op, params, context, client, mirror, tx, response, exc>>

NextRerun == DoNormalise \/ DoRerun

\* Every normaliser above, run twice.
InitRerun ==
    \/ InitTransfer
    \/ InitTopic
    \/ InitSchedule
    \/ InitAccount
    \/ InitMemo
    \/ InitCreateAccount

SpecRerun == InitRerun /\ [][NextRerun]_vars

\* The ledgers of a token transfer: for each token, the signed amounts of
\* some accounts.
TokenAmounts == {-3, -1, 1, 3}
AccountLedgers ==
    UNION {[accounts -> TokenAmounts] :
               accounts \in (SUBSET {AccountIdFromString("0.0.1001"),
                                      AccountIdFromString("0.0.1002")}) \ {{}}}
TokenLedgers ==
    UNION {[tokens -> AccountLedgers] :
               tokens \in (SUBSET {TokenIdFromString(t) : t \in TokenStrings}) \ {{}}}

\* The builders that add their transfers line by line: transfer HBAR with
\* allowance on what its normaliser returns, the two token transfers on
\* every ledger.
InitTransferLines ==
    \/ /\ InitTransfer
       /\ op = "transfer_hbar_with_allowance"
    \/ /\ op \in {"transfer_fungible_token_with_allowance", "transfer_fungible_token"}
       /\ params = DefaultParams
       /\ context = DefaultContext
       /\ client = DefaultClient
       /\ mirror = DefaultMirror
       /\ pc = "normalised"
       /\ \E d \in TokenLedgers, memo \in {None, Some(Text(5))} :
              normalised =
                  Ok(IF op = "transfer_fungible_token"
                     THEN [ft_transfers |-> d, transaction_memo |-> memo,
                           scheduling_params |-> None]
                     ELSE [ft_approved_transfer |-> d, transaction_memo |-> memo,
                           scheduling_params |-> None], <<>>)
       /\ tx = NoTx
       /\ response = NoResponse
       /\ exc = NoError
       /\ calls = <<>>

SpecTransferLines == InitTransferLines /\ [][NextPipeline]_vars

\* The errors pydantic reports: on a nested field, on a top-level field, on a
\* missing field, and on an input that is no mapping at all.
MaxIssues == 2
FieldIssues ==
    {[loc |-> <<"transfers", "0", "amount">>, msg |-> "Input should be a valid number"],
     [loc |-> <<"transaction_memo">>, msg |-> "Input should be a valid string"],
     [loc |-> <<"topic_id">>, msg |-> "Field required"]}
ModelIssue == [loc |-> <<>>, msg |-> "Input should be a valid dictionary"]
IssueLists ==
    {<<>>, <<ModelIssue>>} \cup UNION {[1..n -> FieldIssues] : n \in 1..MaxIssues}

\* The normalisers on parameters with every list of validation errors.
InitValidation ==
    /\ op \in MemoOps
    /\ \E issues \in IssueLists :
           params = [DefaultParams EXCEPT !.issues = issues,
                                          !.source_account_id = Some("0.0.1001")]
    /\ context = DefaultContext
    /\ client = DefaultClient
    /\ mirror = DefaultMirror
    /\ InitRest

SpecValidation == InitValidation /\ [][NextPipeline]_vars

\* The parts of a transaction id: runs of digits, some empty, some with
\* leading zeros, and the characters put between, before and after them.
AccountNums == {<<>>, <<"7">>, <<"4", "1", "7", "7", "8", "0", "6">>}
SecondsParts == {<<>>, <<"0">>, <<"1", "7", "5", "5", "1", "6", "9", "9", "8", "0">>}
NanosParts == {<<>>, <<"0">>, <<"0", "5", "1", "7", "2", "1", "2", "6", "4">>}
Affixes == {<<>>, <<"\n">>, <<"x">>, <<"\n", "\n">>}

TransactionIds ==
    {prefix \o <<"0", ".">> \o realm \o <<".">> \o num \o <<sep1>> \o seconds
         \o <<sep2>> \o nanos \o suffix :
        prefix \in {<<>>, <<"\n">>}, realm \in {<<>>, <<"0">>}, num \in AccountNums,
        sep1 \in {"@", "-", "."}, seconds \in SecondsParts,
        sep2 \in {".", "-"}, nanos \in NanosParts, suffix \in Affixes}

\* The transaction record query on every transaction id above.
InitRecord ==
    /\ op = "get_transaction_record"
    /\ \E id \in TransactionIds, nonce \in {None, Some(1)} :
           params = [DefaultParams EXCEPT !.transaction_id = id, !.nonce = nonce]
    /\ context = DefaultContext
    /\ client = DefaultClient
    /\ mirror = DefaultMirror
    /\ InitRest

\* The normaliser runs again, on the id it returned.
DoNormaliseAgain ==
    /\ pc = "normalised"
    /\ op = "get_transaction_record"
    /\ params' = [params EXCEPT !.transaction_id = normalised.value.transaction_id]
    /\ normalised' = Normalise(op, params', context, client, mirror)
    /\ pc' = "normalised again"
    /\ UNCHANGED <<op, context, client, mirror, tx, response, exc, calls>>

NextRecord == DoNormalise \/ DoNormaliseAgain

SpecRecord == InitRecord /\ [][NextRecord]_vars

----------------------------------------------------------------------------
(* The tools: create fungible token, mint fungible token, associate token, *)
(* dissociate token and the token info query. Each runs its steps inside   *)
(* one try block and turns an exception into a failure ToolResponse.       *)

Tools ==
    {"create_fungible_token", "mint_fungible_token", "associate_token",
     "dissociate_token", "get_token_info_query"}
TransactionTools == Tools \ {"get_token_info_query"}

\* A variant of ToolSteps in which a transaction tool executes before it builds.
ToolStepsExecuteFirst(tool) ==
    CASE tool \in {"create_fungible_token", "mint_fungible_token"} ->
             <<"get_mirrornode_service", "normalise", "handle_transaction", "build">>
      [] tool \in {"associate_token", "dissociate_token"} ->
             <<"normalise", "handle_transaction", "build">>
      [] tool = "get_token_info_query" ->
             <<"normalise", "get_mirrornode_service", "get_token_info", "post_process">>

\* The statements of each tool's try block, in source order.
ToolSteps(tool) ==
    CASE tool \in {"create_fungible_token", "mint_fungible_token"} ->
             <<"get_mirrornode_service", "normalise", "build", "handle_transaction">>
      [] tool \in {"associate_token", "dissociate_token"} ->
             <<"normalise", "build", "handle_transaction">>
      [] tool = "get_token_info_query" ->
             <<"normalise", "get_mirrornode_service", "get_token_info", "post_process">>

StepAfter(tool, step) ==
    LET steps == ToolSteps(tool)
        i == CHOOSE k \in 1..Len(steps) : steps[k] = step
    IN IF i = Len(steps) THEN "done" ELSE steps[i + 1]

\* Python's exception classes below Exception, as the steps raise them.
ExceptionClasses == {"Exception", "ValueError", "KeyError", "TypeError"}

\* A variant of Caught: except ValueError as e.
CaughtValueErrorOnly(e) == e.cls = "ValueError"

\* except Exception as e:
Caught(e) == e.cls \in ExceptionClasses

\* A variant of AfterRaise in which the failed statement is run again.
AfterRaiseRetry(step) == step

\* Where the except block leaves the tool: it returns the failure response.
AfterRaise(step) == "failed"

\* A variant of Str that names the class of the exception only.
StrClassName(e) == <<e.cls>>

\* str(e): the message of the exception; a KeyError shows the repr of its key.
Str(e) ==
    IF e.cls = "KeyError" THEN <<"'">> \o e.msg \o <<"'">> ELSE e.msg

\* The description each tool's except block puts before the cause.
FailurePrefix(tool) ==
    CASE tool = "create_fungible_token" -> "Failed to create fungible token"
      [] tool = "mint_fungible_token" -> "Failed to mint fungible token"
      [] tool = "associate_token" -> "Failed to associate token(s)"
      [] tool = "dissociate_token" -> "Failed to dissociate token"
      [] tool = "get_token_info_query" -> "Failed to get token info"

\* message = f"{desc}: {str(e)}"
FailureMessage(tool, e) == <<FailurePrefix(tool), ": ">> \o Str(e)

\* RawTransactionResponse.
RawResponse(status, transaction_id, schedule_id, token_id, error) ==
    [status |-> status, transaction_id |-> transaction_id, schedule_id |-> schedule_id,
     token_id |-> token_id, error |-> error]

\* A variant of FailureResponse whose error is the bare message of the
\* exception, for every tool alike.
FailureResponseBareError(tool, e) ==
    [human_message |-> FailureMessage(tool, e), error |-> Some(Str(e)),
     raw |-> None, extra |-> None]

\* The ToolResponse each tool's except block returns.
FailureResponse(tool, e) ==
    [human_message |-> FailureMessage(tool, e),
     error |-> Some(FailureMessage(tool, e)),
     raw |-> IF tool = "dissociate_token"
             THEN Some(RawResponse("INVALID_TRANSACTION", None, None, None,
                                   Some(FailureMessage(tool, e))))
             ELSE None,
     extra |-> None]

\* A variant of post_process that reports every result as executed at once.
post_process_unscheduled(tool, raw) ==
    CASE tool = "create_fungible_token" ->
             <<"Token created successfully.\nTransaction ID: ",
               Get(raw.transaction_id), "\nToken ID: ",
               IF ~IsNone(raw.token_id) THEN Get(raw.token_id) ELSE "unknown">>
      [] tool = "mint_fungible_token" ->
             <<"Tokens successfully minted.\nTransaction ID: ",
               Get(raw.transaction_id)>>
      [] tool = "associate_token" ->
             <<"Tokens successfully associated with transaction id ",
               Get(raw.transaction_id)>>
      [] tool = "dissociate_token" ->
             <<"Token(s) successfully dissociated with transaction id ",
               Get(raw.transaction_id)>>

\* Each tool's post_process(response).
post_process(tool, raw) ==
    CASE tool = "create_fungible_token" ->
             IF ~IsNone(raw.schedule_id)
             THEN <<"Scheduled transaction created successfully.\nTransaction ID: ",
                    Get(raw.transaction_id), "\nSchedule ID: ", Get(raw.schedule_id)>>
             ELSE <<"Token created successfully.\nTransaction ID: ",
                    Get(raw.transaction_id), "\nToken ID: ",
                    IF ~IsNone(raw.token_id) THEN Get(raw.token_id) ELSE "unknown">>
      [] tool = "mint_fungible_token" ->
             IF ~IsNone(raw.schedule_id)
             THEN <<"Scheduled mint transaction created successfully.\nTransaction ID: ",
                    Get(raw.transaction_id), "\nSchedule ID: ", Get(raw.schedule_id)>>
             ELSE <<"Tokens successfully minted.\nTransaction ID: ",
                    Get(raw.transaction_id)>>
      [] tool = "associate_token" ->
             <<"Tokens successfully associated with transaction id ",
               Get(raw.transaction_id)>>
      [] tool = "dissociate_token" ->
             <<"Token(s) successfully dissociated with transaction id ",
               Get(raw.transaction_id)>>

\* get_token_info_query.post_process(token_info).
post_process_token_info(token_info) ==
    <<"Here are the details for token **", Get(token_info.token_id), "**:",
      "- **Token Symbol**: ", token_info.symbol,
      "- **Decimals**: ", ToString(token_info.decimals)>>

\* HederaBuilder.associate_token: TokenAssociateTransaction(**vars(params)).
build_associate_token(n) == PlainTx("TokenAssociateTransaction", n)

\* The builder each transaction tool calls.
ToolBuild(tool, n) ==
    CASE tool = "create_fungible_token" -> build_create_fungible_token(n)
      [] tool = "mint_fungible_token" -> build_mint_fungible_token(n)
      [] tool = "associate_token" -> build_associate_token(n)
      [] tool = "dissociate_token" -> build_dissociate_token(n)

\* get_mirrornode_service(context.mirrornode_service, ledger_id): the service,
\* or an error for a network without a mirror node.
get_mirrornode_service_outcomes ==
    {Ok("mirrornode", <<>>),
     Raise("ValueError", <<"Network type ", "localnet", " not supported">>, <<>>)}

\* normalise_associate_token: the outcomes of the normaliser.
normalise_associate_token_outcomes(p, ctx, cl) ==
    LET account_id == resolve_account(p.account_id, ctx, cl) IN
    {IF account_id.ok
     THEN Ok([account_id |-> AccountIdFromString(account_id.value),
              token_ids |-> [i \in 1..Len(p.token_ids) |-> TokenIdFromString(p.token_ids[i])]],
             <<>>)
     ELSE account_id}

\* The normaliser each tool calls, after the schema validation it starts with.
ToolNormaliseOutcomes(tool, p, ctx, cl, mi) ==
    CASE tool = "create_fungible_token" ->
             {normalise_create_fungible_token_params(p, ctx, cl, mi)}
      [] tool = "mint_fungible_token" ->
             {normalise_mint_fungible_token_params(p, ctx, cl, mi)}
      [] tool = "associate_token" -> normalise_associate_token_outcomes(p, ctx, cl)
      [] tool = "dissociate_token" -> {normalise_dissociate_token_params(p, ctx, cl)}
      [] tool = "get_token_info_query" -> {normalise_get_token_info(p)}

\* The statuses the ledger rejects a transaction with.
RejectionStatuses == {"TOKEN_MAX_SUPPLY_REACHED", "TOKEN_NOT_ASSOCIATED_TO_ACCOUNT"}

\* handle_transaction(tx, client, context, post_process): the transaction is
\* executed once; the receipt becomes a ToolResponse, a rejection an exception.
handle_transaction_outcomes(tool, t) ==
    {LET raw == RawResponse(
                    "SUCCESS", Some("0.0.2@1700000000.000000001"),
                    IF t.type = "ScheduleCreateTransaction" THEN Some("0.0.8008") ELSE None,
                    IF t.type = "TokenCreateTransaction" THEN Some("0.0.7003") ELSE None,
                    None)
     IN Ok([human_message |-> post_process(tool, raw), error |-> None,
            raw |-> Some(raw), extra |-> None], <<>>)}
    \cup {Raise("Exception", <<"Transaction failed with status: ", st>>, <<>>) :
              st \in RejectionStatuses}

\* mirrornode_service.get_token_info(token_id): the token's record (its
\* token_id possibly null or missing), or a not-found error.
get_token_info_outcomes(token_id) ==
    {Ok([has_token_id |-> TRUE, token_id |-> Some(token_id), symbol |-> "MTK", decimals |-> 2],
        <<>>),
     Ok([has_token_id |-> TRUE, token_id |-> None, symbol |-> "MTK", decimals |-> 2], <<>>),
     Ok([has_token_id |-> FALSE, token_id |-> None, symbol |-> "MTK", decimals |-> 2], <<>>),
     Raise("Exception", <<"Failed to fetch token info ", token_id, ": HTTP 404">>, <<>>)}

\* Leaving a statement of the try block with outcome r: on to the next
\* statement, or into the except block.
Leave(step, r, log, next, resp) ==
    /\ calls' = calls \o log \o r.calls
    /\ IF r.ok
       THEN /\ pc' = next
            /\ exc' = exc
            /\ response' = IF next = "done" THEN resp ELSE response
       ELSE /\ exc' = r.error
            /\ IF Caught(r.error)
               THEN /\ pc' = AfterRaise(step)
                    /\ response' = FailureResponse(op, r.error)
               ELSE /\ pc' = "escaped"
                    /\ response' = response

\* mirrornode_service = get_mirrornode_service(...)
GetMirrornodeService ==
    /\ pc = "get_mirrornode_service"
    /\ \E r \in get_mirrornode_service_outcomes :
           Leave("get_mirrornode_service", r, <<"get_mirrornode_service">>,
                 StepAfter(op, "get_mirrornode_service"), response)
    /\ UNCHANGED <<op, params, context, client, mirror, normalised, tx>>

\* normalised_params = HederaParameterNormaliser.normalise_...(params, ...)
NormaliseParams ==
    /\ pc = "normalise"
    /\ LET parsed == parse_params_with_schema(params) IN
       IF ~parsed.ok
       THEN /\ normalised' = parsed
            /\ Leave("normalise", parsed, <<"parse_params_with_schema">>, "failed", response)
       ELSE \E r \in ToolNormaliseOutcomes(op, params, context, client, mirror) :
                /\ normalised' = r
                /\ Leave("normalise", r, <<"parse_params_with_schema", "normalise">>,
                         StepAfter(op, "normalise"), response)
    /\ UNCHANGED <<op, params, context, client, mirror, tx>>

\* tx = HederaBuilder.<operation>(normalised_params)
BuildTransaction ==
    /\ pc = "build"
    /\ tx' = ToolBuild(op, normalised.value)
    /\ Leave("build", Ok(None, <<>>), <<"build">>, StepAfter(op, "build"), response)
    /\ UNCHANGED <<op, params, context, client, mirror, normalised>>

\* return await handle_transaction(tx, client, context, post_process)
HandleTransaction ==
    /\ pc = "handle_transaction"
    /\ \E r \in handle_transaction_outcomes(op, tx) :
           Leave("handle_transaction", r, <<"handle_transaction">>, "done", r.value)
    /\ UNCHANGED <<op, params, context, client, mirror, normalised, tx>>

\* token_info = await mirrornode_service.get_token_info(parsed_params.token_id)
GetTokenInfo ==
    /\ pc = "get_token_info"
    /\ \E r \in get_token_info_outcomes(Get(normalised.value.token_id)) :
           /\ mirror' = [mirror EXCEPT !.get_token_info[Get(normalised.value.token_id)] = r]
           /\ Leave("get_token_info", r, <<"mirror.get_token_info">>,
                    StepAfter(op, "get_token_info"), response)
    /\ UNCHANGED <<op, params, context, client, normalised, tx>>

\* if token_info["token_id"] is None: token_info["token_id"] = ...
\* return ToolResponse(human_message=post_process(token_info), extra=...)
PostProcessTokenInfo ==
    /\ pc = "post_process"
    /\ LET fetched == mirror.get_token_info[Get(normalised.value.token_id)].value
           token_info ==
               IF IsNone(fetched.token_id)
               THEN [fetched EXCEPT !.token_id = normalised.value.token_id]
               ELSE fetched
           r == IF ~fetched.has_token_id
                THEN Raise("KeyError", <<"token_id">>, <<>>)
                ELSE Ok([human_message |-> post_process_token_info(token_info),
                         error |-> None, raw |-> None,
                         extra |-> Some([tokenInfo |-> token_info,
                                         tokenId |-> normalised.value.token_id])],
                        <<>>)
       IN Leave("post_process", r, <<"post_process">>, "done", r.value)
    /\ UNCHANGED <<op, params, context, client, mirror, normalised, tx>>

Next ==
    \/ GetMirrornodeService
    \/ NormaliseParams
    \/ BuildTransaction
    \/ HandleTransaction
    \/ GetTokenInfo
    \/ PostProcessTokenInfo

\* A block with is_scheduled set and the other fields left out.
ScheduledBlock ==
    [is_scheduled |-> TRUE, admin_key |-> RawNone, payer_account_id |-> None,
     expiration_time |-> None, wait_for_expiry |-> None]

\* Every tool, on valid and invalid parameters, with and without an operator.
Init ==
    /\ op \in Tools
    /\ \E issues \in {<<>>, <<[loc |-> <<"token_ids">>, msg |-> "Field required"]>>},
          a \in {None, Some("0.0.1001")},
          t \in {None, Some("0.0.7001")},
          sp \in {None, Some(ScheduledBlock)} :
           params = [DefaultParams EXCEPT !.issues = issues, !.account_id = a,
                                          !.token_id = t, !.scheduling_params = sp]
    /\ op = "mint_fungible_token" => ~IsNone(params.token_id)
    /\ context = DefaultContext
    /\ \E o \in {None, Some(AccountIdFromString("0.0.2"))} :
           client = [DefaultClient EXCEPT !.operator_account_id = o]
    /\ mirror = DefaultMirror
    /\ pc = ToolSteps(op)[1]
    /\ normalised = NoResult
    /\ tx = NoTx
    /\ response = NoResponse
    /\ exc = NoError
    /\ calls = <<>>

Spec == Init /\ [][Next]_vars

----------------------------------------------------------------------------
(* Two invocations of the tools on one context and one client. Each is a   *)
(* coroutine: its statements run in order, and another invocation may run  *)
(* between any two of them.                                                *)

Invocations == {"first", "second"}
Finished == {"done", "failed", "escaped"}

\* The locals of a coroutine before its first statement.
Locals(tool) ==
    [pc |-> ToolSteps(tool)[1], normalised |-> NoResult, tx |-> NoTx,
     response |-> NoResponse, exc |-> NoError]

\* Leaving a statement with outcome r, as Leave does, on the locals l.
After(tool, l, step, r, n, t, resp) ==
    [pc |-> IF r.ok THEN StepAfter(tool, step)
            ELSE IF Caught(r.error) THEN AfterRaise(step) ELSE "escaped",
     normalised |-> n,
     tx |-> t,
     response |-> IF r.ok THEN (IF StepAfter(tool, step) = "done" THEN resp ELSE l.response)
                  ELSE IF Caught(r.error) THEN FailureResponse(tool, r.error)
                  ELSE l.response,
     exc |-> IF r.ok THEN l.exc ELSE r.error]

\* One statement of a tool's try block on the locals l, given the answers the
\* mirror node and the ledger give to this invocation.
ToolStep(tool, p, ctx, cl, answers, l) ==
    CASE l.pc = "get_mirrornode_service" ->
             After(tool, l, l.pc, answers.service, l.normalised, l.tx, l.response)
      [] l.pc = "normalise" ->
             LET parsed == parse_params_with_schema(p)
                 mi == [DefaultMirror EXCEPT !.get_account = answers.get_account]
                 r == IF ~parsed.ok THEN parsed
                      ELSE CHOOSE x \in ToolNormaliseOutcomes(tool, p, ctx, cl, mi) : TRUE
             IN After(tool, l, l.pc, r, r, l.tx, l.response)
      [] l.pc = "build" ->
             After(tool, l, l.pc, Ok(None, <<>>), l.normalised,
                   ToolBuild(tool, l.normalised.value), l.response)
      [] l.pc = "handle_transaction" ->
             LET r == CHOOSE x \in handle_transaction_outcomes(tool, l.tx) :
                          IF answers.execute = "SUCCESS" THEN x.ok
                          ELSE ~x.ok /\ x.error.msg[2] = answers.execute
             IN After(tool, l, l.pc, r, l.normalised, l.tx, r.value)
      [] l.pc = "get_token_info" ->
             After(tool, l, l.pc, answers.token_info, l.normalised, l.tx, l.response)
      [] l.pc = "post_process" ->
             LET fetched == answers.token_info.value
                 token_info ==
                     IF IsNone(fetched.token_id)
                     THEN [fetched EXCEPT !.token_id = l.normalised.value.token_id]
                     ELSE fetched
                 r == IF ~fetched.has_token_id
                      THEN Raise("KeyError", <<"token_id">>, <<>>)
                      ELSE Ok([human_message |-> post_process_token_info(token_info),
                               error |-> None, raw |-> None,
                               extra |-> Some([tokenInfo |-> token_info,
                                               tokenId |-> l.normalised.value.token_id])],
                              <<>>)
             IN After(tool, l, l.pc, r, l.normalised, l.tx, r.value)
      [] OTHER -> l

\* The invocation run from its first statement to its return, by itself.
RunAlone(tool, p, ctx, cl, answers) ==
    LET l1 == ToolStep(tool, p, ctx, cl, answers, Locals(tool))
        l2 == ToolStep(tool, p, ctx, cl, answers, l1)
        l3 == ToolStep(tool, p, ctx, cl, answers, l2)
    IN ToolStep(tool, p, ctx, cl, answers, l3)

\* A variant of BuiltBy in which the built transaction is kept in one place
\* for all invocations: the last one built.
BuiltLast(i) ==
    LET k == CHOOSE n \in 1..Len(calls) :
                 /\ calls[n][2] = "build"
                 /\ \A m \in (n + 1)..Len(calls) : calls[m][2] /= "build"
    IN tx[calls[k][1]]

\* The transaction invocation i hands to handle_transaction: its local tx.
BuiltBy(i) == tx[i]

\* The next statement of invocation i.
InvocationStep(i) ==
    /\ pc[i] \notin Finished
    /\ LET l == [pc |-> pc[i], normalised |-> normalised[i],
                 tx |-> IF pc[i] = "handle_transaction" THEN BuiltBy(i) ELSE tx[i],
                 response |-> response[i], exc |-> exc[i]]
           n == ToolStep(op[i], params[i], context, client, mirror[i], l)
       IN /\ pc' = [pc EXCEPT ![i] = n.pc]
          /\ normalised' = [normalised EXCEPT ![i] = n.normalised]
          /\ tx' = [tx EXCEPT ![i] = n.tx]
          /\ response' = [response EXCEPT ![i] = n.response]
          /\ exc' = [exc EXCEPT ![i] = n.exc]
          /\ calls' = Append(calls, <<i, pc[i]>>)
    /\ UNCHANGED <<op, params, context, client, mirror>>

NextConcurrent == \E i \in Invocations : InvocationStep(i)

\* What one invocation is called with and what the outside answers to it.
InvocationCases ==
    {[op |-> "create_fungible_token",
      params |-> [DefaultParams EXCEPT !.scheduling_params = sp],
      answers |-> [service |-> service, get_account |-> DefaultMirror.get_account,
                   token_info |-> Ok(None, <<>>), execute |-> execute]] :
         sp \in {None, Some(ScheduledBlock)},
         service \in get_mirrornode_service_outcomes,
         execute \in {"SUCCESS"} \cup RejectionStatuses}
    \cup
    {[op |-> "get_token_info_query",
      params |-> [DefaultParams EXCEPT !.token_id = t],
      answers |-> [service |-> service, get_account |-> DefaultMirror.get_account,
                   token_info |-> token_info, execute |-> "SUCCESS"]] :
         t \in {None, Some("0.0.7001")},
         service \in get_mirrornode_service_outcomes,
         token_info \in get_token_info_outcomes("0.0.7001")}

InitConcurrent ==
    /\ \E cases \in [Invocations -> InvocationCases] :
           /\ op = [i \in Invocations |-> cases[i].op]
           /\ params = [i \in Invocations |-> cases[i].params]
           /\ mirror = [i \in Invocations |-> cases[i].answers]
    /\ context = DefaultContext
    /\ client = DefaultClient
    /\ pc = [i \in Invocations |-> ToolSteps(op[i])[1]]
    /\ normalised = [i \in Invocations |-> NoResult]
    /\ tx = [i \in Invocations |-> NoTx]
    /\ response = [i \in Invocations |-> NoResponse]
    /\ exc = [i \in Invocations |-> NoError]
    /\ calls = <<>>

SpecConcurrent == InitConcurrent /\ [][NextConcurrent]_vars

\* The supplies, decimals and supply types a caller gives for a new token.
CreateDecimals == {None, Some(-2), Some(0), Some(2), Some(MaxDecimals)}
CreateInitialSupplies == {None, Some(-5), Some(0), Some(50), Some(100), Some(200), Some(2 * DefaultMaxSupply)}
CreateMaxSupplies == {None, Some(100), Some(500)}
CreateSupplyTypes == {None, Some(0), Some(1)}

\* The amounts a caller mints, in 1/AmountScale display units.
MintAmounts == {1, 3, 5 * AmountScale, 21, 500 * AmountScale}

\* What the mirror service answers for a token: its decimals as a string, a
\* record without decimals, or a failure.
TokenInfoAnswers(t) ==
    {Ok([decimals |-> Some(ToString(d))], <<>>) : d \in 0..MaxDecimals}
    \cup {Ok([decimals |-> None], <<>>),
          Raise("Exception", <<"Failed to fetch token info ", t, ": HTTP 404">>, <<>>)}

\* The create and mint tools on the supplies, amounts and mirror answers above.
InitToken ==
    /\ op \in {"create_fungible_token", "mint_fungible_token"}
    /\ \E sp \in {None, Some(ScheduledBlock)} :
       IF op = "create_fungible_token"
       THEN /\ \E d \in CreateDecimals, i \in CreateInitialSupplies,
                  m \in CreateMaxSupplies, st \in CreateSupplyTypes,
                  tr \in {None, Some("0.0.1001")} :
                   params = [DefaultParams EXCEPT !.decimals = d, !.initial_supply = i,
                                                  !.max_supply = m, !.supply_type = st,
                                                  !.treasury_account_id = tr,
                                                  !.scheduling_params = sp]
            /\ mirror = DefaultMirror
       ELSE /\ \E t \in TokenStrings, a \in MintAmounts :
                   params = [DefaultParams EXCEPT !.token_id = Some(t), !.amount = a,
                                                  !.scheduling_params = sp]
            /\ \E answers \in [TokenStrings -> UNION {TokenInfoAnswers(t) : t \in TokenStrings}] :
                   /\ \A t \in TokenStrings : answers[t] \in TokenInfoAnswers(t)
                   /\ mirror = [DefaultMirror EXCEPT !.get_token_info = answers]
    /\ context = DefaultContext
    /\ \E o \in {None, Some(AccountIdFromString("0.0.2"))} :
           client = [DefaultClient EXCEPT !.operator_account_id = o]
    /\ pc = ToolSteps(op)[1]
    /\ normalised = NoResult
    /\ tx = NoTx
    /\ response = NoResponse
    /\ exc = NoError
    /\ calls = <<>>

NextToken ==
    \/ GetMirrornodeService
    \/ NormaliseParams
    \/ BuildTransaction
    \/ HandleTransaction

SpecToken == InitToken /\ [][NextToken]_vars

\* The results an execution hands to post_process: with and without a
\* schedule id, with and without a token id.
TransactionIdStrings ==
    {"0.0.2@1700000000.000000001", "0.0.2@1700000000.000000002",
     "0.0.1001@1755169980.051721264", "0.0.1002@1755169981.000000000"}
ExecutionResults ==
    {RawResponse("SUCCESS", Some(t), s, k, None) :
         t \in TransactionIdStrings,
         s \in {None, Some("0.0.8008"), Some("0.0.8009")},
         k \in {None, Some("0.0.7003"), Some("0.0.7004")}}

\* handle_transaction has the result of the execution in hand.
InitPostProcess ==
    /\ op \in {"create_fungible_token", "mint_fungible_token"}
    /\ \E raw \in ExecutionResults : response = [NoResponse EXCEPT !.raw = Some(raw)]
    /\ params = DefaultParams
    /\ context = DefaultContext
    /\ client = DefaultClient
    /\ mirror = DefaultMirror
    /\ pc = "handle_transaction"
    /\ normalised = NoResult
    /\ tx = NoTx
    /\ exc = NoError
    /\ calls = <<"handle_transaction">>

\* human_message = post_process(raw)
DoPostProcess ==
    /\ pc = "handle_transaction"
    /\ response' = [response EXCEPT !.human_message = post_process(op, Get(response.raw))]
    /\ pc' = "done"
    /\ calls' = Append(calls, "post_process")
    /\ UNCHANGED <<op, params, context, client, mirror, normalised, tx, exc>>

SpecPostProcess == InitPostProcess /\ [][DoPostProcess]_vars

\* Create token, over the parameters that decide on a supply key (those the
\* supply constraints accept), the treasury, the operator's key and the
\* mirror's answer for every account.
InitSupplyKey ==
    /\ op = "create_fungible_token"
    /\ \E k \in {None, Some(TRUE), Some(FALSE)}, st \in CreateSupplyTypes,
          m \in {None, Some(500)}, tr \in {None, Some("0.0.1001")} :
           /\ create_supply_error(CreateFungibleTokenParameters(
                  [DefaultParams EXCEPT !.supply_type = st, !.max_supply = m])) = <<>>
           /\ params = [DefaultParams EXCEPT !.is_supply_key = k, !.supply_type = st,
                                             !.max_supply = m, !.treasury_account_id = tr]
    /\ \E answers \in [AccountStrings -> AccountAnswers] :
           mirror = [DefaultMirror EXCEPT !.get_account = answers]
    /\ context = DefaultContext
    /\ \E k \in PrivateKeys : client = [DefaultClient EXCEPT !.operator_private_key = Some(k)]
    /\ pc = ToolSteps(op)[1]
    /\ normalised = NoResult
    /\ tx = NoTx
    /\ response = NoResponse
    /\ exc = NoError
    /\ calls = <<>>

SpecSupplyKey == InitSupplyKey /\ [][NextToken]_vars

----------------------------------------------------------------------------
(* Properties of the normalisers and builders.                             *)

InCalls(name) == \E i \in 1..Len(calls) : calls[i] = name
Normalised == pc \in {"normalised", "built"}

\* The ledger of the normalised transfer.
Ledger ==
    IF op = "transfer_hbar" THEN normalised.value.hbar_transfers
    ELSE normalised.value.hbar_approved_transfers

\* C1: the ledger deltas produced by normalise_transfer_hbar and by
\* normalise_transfer_hbar_with_allowance sum to zero, whatever the list of
\* recipients (an account may appear more than once, and may be the source).
C1_Conservation ==
    (op \in {"transfer_hbar", "transfer_hbar_with_allowance"} /\ Normalised)
        => DictSum(Ledger) = 0

\* The normalised scheduling parameters, absent when the result has none.
NormalisedScheduling == GetAttr(normalised.value, "scheduling_params")

\* C2: a schedulable builder returns a schedule-create transaction whenever
\* the normalised parameters carry scheduling parameters.
C2_ScheduleWrap ==
    (op \in SchedulableOps /\ pc = "built" /\ ~IsNone(NormalisedScheduling))
        => /\ tx.type = "ScheduleCreateTransaction"
           /\ tx.schedule = NormalisedScheduling

ScheduledInput ==
    /\ ~IsNone(params.scheduling_params)
    /\ Get(params.scheduling_params).is_scheduled

\* C3: the normalised scheduling parameters are present exactly when the
\* input block has is_scheduled = true, and the schedule sub-normaliser is
\* not invoked otherwise.
C3_ScheduledIff ==
    (op \in SchedulableOps /\ pc /= "start")
        => /\ normalised.ok => (~IsNone(NormalisedScheduling) <=> ScheduledInput)
           /\ ~ScheduledInput => ~InCalls("normalise_scheduled_transaction_params")

\* The key resolve_key is to return for a raw value that does not fail.
ExpectedKey(raw_value, default_key) ==
    CASE raw_value.t = "none" -> None
      [] raw_value.t = "bool" -> IF raw_value.b THEN default_key ELSE None
      [] raw_value.t = "str" ->
             IF raw_value.s \in Ed25519Strings
             THEN Some(PublicKeyOf("ED25519", raw_value.s))
             ELSE Some(PublicKeyOf("ECDSA", raw_value.s))

KeyFails(raw_value) ==
    raw_value.t = "str" /\ raw_value.s \notin (Ed25519Strings \cup EcdsaStrings)

OperatorPublicKey ==
    IF IsNone(client.operator_private_key) THEN None
    ELSE Some(public_key(Get(client.operator_private_key)))

\* C9: resolve_key gives absent for an absent value and for false, the
\* default key for true, and for a string the Ed25519 parse, else the ECDSA
\* parse, else an error; a string is never replaced by the default key.
C9_ResolveKey ==
    (op = "update_topic" /\ pc /= "start")
        => IF KeyFails(params.admin_key) \/ KeyFails(params.submit_key)
           THEN ~normalised.ok /\ normalised.error.cls = "ValueError"
           ELSE /\ normalised.ok
                /\ normalised.value.admin_key = ExpectedKey(params.admin_key, OperatorPublicKey)
                /\ normalised.value.submit_key = ExpectedKey(params.submit_key, OperatorPublicKey)

\* A string parsed by the ECDSA parser after the Ed25519 parser refused it,
\* next to a true that became the operator's key.
C9_Witness ==
    /\ op = "update_topic" /\ pc = "normalised"
    /\ params.admin_key = RawStr("ecdsa-a")
    /\ params.submit_key = RawBool(TRUE)
    /\ ~IsNone(client.operator_private_key)
    /\ normalised.value.admin_key = Some(PublicKeyOf("ECDSA", "ecdsa-a"))
    /\ normalised.value.submit_key = OperatorPublicKey

\* The account the resolution order gives: explicit, else the context's,
\* else the operator's.
ExpectedAccount ==
    IF ~IsNone(ExplicitAccount(op, params)) THEN ExplicitAccount(op, params)
    ELSE IF ~IsNone(context.account_id) THEN context.account_id
    ELSE IF ~IsNone(client.operator_account_id)
         THEN Some(AccountIdToString(Get(client.operator_account_id)))
         ELSE None

\* The normalised result of operation o acts on account a.
ResolvedAs(o, v, a) ==
    CASE o = "transfer_hbar" ->
             /\ AccountIdFromString(a) \in DOMAIN v.hbar_transfers
             /\ v.hbar_transfers[AccountIdFromString(a)] < 0
      [] o = "update_account" -> v.account_params.account_id = AccountIdFromString(a)
      [] o = "dissociate_token" -> v.account_id = AccountIdFromString(a)
      [] o = "get_hbar_balance" -> v.account_id = Some(a)
      [] o = "delete_account" -> v.transfer_account_id = AccountIdFromString(a)

\* C10: an optional account resolves to the explicit value, else to the
\* context's account, else to the operator account, and the resolution fails
\* only when none of them is available.
C10_AccountResolution ==
    (op \in AccountOps /\ pc /= "start" /\ ~IsNone(ExpectedAccount))
        => /\ normalised.ok
           /\ ResolvedAs(op, normalised.value, Get(ExpectedAccount))

\* The source of a transfer is known: transfer HBAR falls back on the operator,
\* the allowance variant needs source_account_id.
SourceKnown == op = "transfer_hbar" \/ TruthyStr(params.source_account_id)
SourceAccount ==
    IF TruthyStr(params.source_account_id) THEN Get(params.source_account_id)
    ELSE IF TruthyStr(context.account_id) THEN Get(context.account_id)
    ELSE AccountIdToString(Get(client.operator_account_id))

\* t is the integer number of tinybars in a display amount.
IsTinybars(t, amount) ==
    /\ t * AmountScale <= amount * TinybarsPerHbar
    /\ amount * TinybarsPerHbar < (t + 1) * AmountScale

\* The entries whose recipient is listed once and is not the source.
SoleEntries ==
    {i \in 1..Len(params.transfers) :
        /\ params.transfers[i].account_id /= SourceAccount
        /\ \A j \in 1..Len(params.transfers) :
               j /= i => params.transfers[j].account_id /= params.transfers[i].account_id}

\* C16: normalise_transfer_hbar and normalise_transfer_hbar_with_allowance
\* turn each amount into amount x 10^8 tinybars; when an entry's amount is
\* zero or negative the whole normalisation fails with "Invalid transfer
\* amount" and no ledger, not even a partial one, is returned or built.
C16_TinybarConversion ==
    (op \in {"transfer_hbar", "transfer_hbar_with_allowance"} /\ pc /= "start"
         /\ params.issues = <<>> /\ SourceKnown)
        => IF \E i \in 1..Len(params.transfers) : params.transfers[i].amount <= 0
           THEN /\ ~normalised.ok
                /\ pc = "failed"
                /\ normalised.value = None
                /\ tx = NoTx
                /\ normalised.error.cls = "ValueError"
                /\ normalised.error.msg[1] = "Invalid transfer amount: "
           ELSE /\ normalised.ok
                /\ \A i \in SoleEntries :
                       IsTinybars(Ledger[AccountIdFromString(params.transfers[i].account_id)],
                                  params.transfers[i].amount)

\* A valid entry followed by an entry of zero HBAR: rejected as a whole.
C16_Witness ==
    /\ op = "transfer_hbar" /\ pc = "failed"
    /\ Len(params.transfers) = 2
    /\ params.transfers[1].amount > 0 /\ params.transfers[2].amount = 0
    /\ normalised.error.msg = <<"Invalid transfer amount: ", "0">>
    /\ normalised.value = None

\* The accounts the entries of the request name.
Recipients ==
    {AccountIdFromString(params.transfers[i].account_id) : i \in 1..Len(params.transfers)}

\* C21: normalise_transfer_hbar_with_allowance fails with "source_account_id
\* is required for allowance transfers" when source_account_id is absent or
\* empty, whatever the context account, the operator and the amounts are: no
\* amount is converted and no ledger is returned or built. With a source, the
\* ledger's owner is that source.
C21_OwnerRequired ==
    (op = "transfer_hbar_with_allowance" /\ pc /= "start" /\ params.issues = <<>>)
        => IF IsNone(params.source_account_id) \/ params.source_account_id = Some("")
           THEN /\ ~normalised.ok
                /\ pc = "failed"
                /\ normalised.error =
                       Exc("ValueError",
                           <<"source_account_id is required for allowance transfers">>)
                /\ normalised.value = None
                /\ tx = NoTx
           ELSE normalised.ok
                    => /\ AccountIdFromString(Get(params.source_account_id))
                              \in DOMAIN Ledger
                       /\ DOMAIN Ledger
                              = Recipients
                                    \cup {AccountIdFromString(Get(params.source_account_id))}

\* No owner given, a context account and an operator at hand, and an entry of
\* zero HBAR: the missing owner is what is reported.
C21_Witness ==
    /\ op = "transfer_hbar_with_allowance" /\ pc = "failed"
    /\ IsNone(params.source_account_id)
    /\ context.account_id = Some("0.0.1001")
    /\ ~IsNone(client.operator_account_id)
    /\ \E i \in 1..Len(params.transfers) : params.transfers[i].amount <= 0
    /\ normalised.error.msg = <<"source_account_id is required for allowance transfers">>

\* C22: parse_params_with_schema returns the typed parameters or fails with
\* one error "Invalid parameters: ..." holding one 'Field "<name>" - <message>'
\* item per validation error, joined by "; "; on failure the normaliser
\* produces no output and runs no later step.
C22_ValidationOutcome ==
    (pc /= "start" /\ params.issues /= <<>>)
        => LET n == Len(params.issues)
               m == normalised.error.msg
           IN /\ ~normalised.ok
              /\ pc = "failed"
              /\ normalised.error.cls = "ValueError"
              /\ Len(m) = 5 * n
              /\ m[1] = "Invalid parameters: "
              /\ \A i \in 1..n :
                     /\ m[5 * i - 3] = "Field \""
                     /\ m[5 * i - 2] = params.issues[i].loc[1]
                     /\ m[5 * i - 1] = "\" - "
                     /\ m[5 * i] = params.issues[i].msg
              /\ \A i \in 1..(n - 1) : m[5 * i + 1] = "; "
              /\ normalised.value = None
              /\ tx = NoTx
              /\ calls = <<>>

\* C22, on the errors that name a field: the same outcome holds.
C22_FieldErrors ==
    (\A i \in 1..Len(params.issues) : params.issues[i].loc /= <<>>)
        => C22_ValidationOutcome

TreasuryOfNewToken ==
    IF TruthyStr(params.treasury_account_id) THEN Get(params.treasury_account_id)
    ELSE AccountIdToString(Get(client.operator_account_id))
TreasuryAnswer == mirror.get_account[TreasuryOfNewToken]
TreasuryKeyKnown ==
    TreasuryAnswer.ok /\ ~IsNone(TreasuryAnswer.value.account_public_key)
SupplyKeyRequired ==
    \/ params.is_supply_key = Some(TRUE)
    \/ IsNone(params.is_supply_key) /\ normalised.value.token_params.supply_type = "FINITE"

Result == Get(response.raw)

\* C26: the message of a successful create or mint names a scheduled
\* transaction and its schedule id exactly when the result carries a schedule
\* id; otherwise it says the token was created, with the result's token id or
\* "unknown", or that the tokens were minted; it always holds the transaction id.
C26_SuccessMessage ==
    (pc = "done" /\ InCalls("post_process"))
        => LET m == response.human_message IN
           /\ m[2] = Get(Result.transaction_id)
           /\ IF ~IsNone(Result.schedule_id)
              THEN /\ m[1] = IF op = "create_fungible_token"
                             THEN "Scheduled transaction created successfully.\nTransaction ID: "
                             ELSE "Scheduled mint transaction created successfully.\nTransaction ID: "
                   /\ m[3] = "\nSchedule ID: "
                   /\ m[4] = Get(Result.schedule_id)
                   /\ Len(m) = 4
              ELSE IF op = "create_fungible_token"
              THEN /\ m[1] = "Token created successfully.\nTransaction ID: "
                   /\ m[3] = "\nToken ID: "
                   /\ m[4] = IF IsNone(Result.token_id) THEN "unknown" ELSE Get(Result.token_id)
                   /\ Len(m) = 4
              ELSE /\ m[1] = "Tokens successfully minted.\nTransaction ID: "
                   /\ Len(m) = 2

C26_Witness ==
    /\ pc = "done"
    /\ InCalls("post_process")
    /\ op = "create_fungible_token"
    /\ IsNone(Result.schedule_id)
    /\ IsNone(Result.token_id)
    /\ response.human_message[4] = "unknown"

RECURSIVE SumOfLines(_)
SumOfLines(lines) ==
    IF lines = <<>> THEN 0 ELSE Head(lines).amount + SumOfLines(Tail(lines))

TokenLedger ==
    IF op = "transfer_fungible_token" THEN normalised.value.ft_transfers
    ELSE normalised.value.ft_approved_transfer
TokenEntries ==
    UNION {{<<t, a>> : a \in DOMAIN TokenLedger[t]} : t \in DOMAIN TokenLedger}
RECURSIVE SumOfEntries(_)
SumOfEntries(entries) ==
    IF entries = {} THEN 0
    ELSE LET e == CHOOSE x \in entries : TRUE IN
         TokenLedger[e[1]][e[2]] + SumOfEntries(entries \ {e})

\* C27: the builders of transfer HBAR with allowance and of the two token
\* transfers add one line per entry of the ledger, with the entry's account,
\* token and signed amount: as many lines as entries, every entry among them,
\* and the lines' amounts sum to the ledger's.
C27_OneLinePerEntry ==
    (pc = "built")
        => IF op = "transfer_hbar_with_allowance"
           THEN LET lines == tx.fields.hbar_transfers IN
                /\ Len(lines) = Cardinality(DOMAIN Ledger)
                /\ \A a \in DOMAIN Ledger :
                       \E i \in 1..Len(lines) :
                           lines[i] = [account_id |-> a, amount |-> Ledger[a]]
                /\ SumOfLines(lines) = DictSum(Ledger)
                /\ tx.fields.approved
           ELSE LET lines == tx.fields.token_transfers IN
                /\ Len(lines) = Cardinality(TokenEntries)
                /\ \A e \in TokenEntries :
                       \E i \in 1..Len(lines) :
                           lines[i] = [token_id |-> e[1], account_id |-> e[2],
                                       amount |-> TokenLedger[e[1]][e[2]]]
                /\ SumOfLines(lines) = SumOfEntries(TokenEntries)
                /\ tx.fields.approved = (op = "transfer_fungible_token_with_allowance")

\* Two tokens, the same two accounts under each, debits and credits.
C27_Witness ==
    /\ pc = "built"
    /\ op = "transfer_fungible_token_with_allowance"
    /\ Cardinality(DOMAIN TokenLedger) = 2
    /\ Len(tx.fields.token_transfers) = 4
    /\ \E i \in 1..4 : tx.fields.token_transfers[i].amount < 0
    /\ SumOfLines(tx.fields.token_transfers) = 0

AccountLookups == Cardinality({i \in 1..Len(calls) : calls[i] = "mirror.get_account"})
DefaultAccount == get_default_account(context, client)
FirstTwoSources ==
    IF TruthyStr(params.public_key) THEN params.public_key
    ELSE IF ~IsNone(client.operator_private_key)
         THEN Some(to_string_der(public_key(Get(client.operator_private_key))))
         ELSE None
MirrorSource ==
    IF IsNone(DefaultAccount) THEN None
    ELSE IF mirror.get_account[Get(DefaultAccount)].ok
         THEN mirror.get_account[Get(DefaultAccount)].value.account_public_key
         ELSE None
KeySource == IF IsNone(FirstTwoSources) THEN MirrorSource ELSE FirstTwoSources

\* C28: normalise_create_account takes the new account's key from
\* params.public_key, else from the operator's private key, else from the
\* mirror's get_account for the default account; it asks the mirror at most
\* once and only when the first two give nothing; when none of the three
\* gives a key it fails with "Unable to resolve public key".
C28_KeyResolution ==
    (op = "create_account" /\ pc /= "start")
        => /\ AccountLookups <= 1
           /\ AccountLookups = 1 => IsNone(FirstTwoSources)
           /\ IF IsNone(KeySource)
              THEN /\ ~normalised.ok
                   /\ normalised.error =
                          Exc("ValueError",
                              <<"Unable to resolve public key: no param, mirror node, or client operator key available.">>)
              ELSE /\ normalised.ok = from_string(Get(KeySource)).ok
                   /\ normalised.ok => normalised.value.key = from_string(Get(KeySource)).value

\* C28, when the mirror answers the request for the default account: the
\* same order and the same failure hold.
C28_AnsweringMirror ==
    (~IsNone(DefaultAccount) => mirror.get_account[Get(DefaultAccount)].ok)
        => C28_KeyResolution

RejectedByValidation ==
    \/ params.issues /= <<>>
    \/ op = "get_token_info_query" /\ ~TruthyStr(params.token_id)
OutsideCalls == {"mirror.get_account", "mirror.get_token_info", "handle_transaction"}

\* C29: when validation rejects the raw parameters of a tool invocation (a
\* schema violation, or the token info query without a token id), no query
\* goes to the mirror service and nothing is executed, at any point up to and
\* including the failure response; the query without a token id fails with
\* "Token ID is required to fetch token info.".
C29_RejectedBeforeIO ==
    RejectedByValidation
        => /\ \A i \in 1..Len(calls) : calls[i] \notin OutsideCalls
           /\ pc \notin {"build", "handle_transaction", "get_token_info", "post_process", "done"}
           /\ tx = NoTx
           /\ InCalls("parse_params_with_schema")
                  => /\ pc = "failed"
                     /\ ~IsNone(response.error)
                     /\ response.human_message = Get(response.error)
                     /\ params.issues = <<>>
                            => response.human_message
                                   = <<"Failed to get token info", ": ",
                                       "Token ID is required to fetch token info.">>

C29_Witness ==
    /\ op = "get_token_info_query"
    /\ IsNone(params.token_id)
    /\ params.issues = <<>>
    /\ pc = "failed"
    /\ calls = <<"parse_params_with_schema", "normalise">>
    /\ response.error
           = Some(<<"Failed to get token info", ": ", "Token ID is required to fetch token info.">>)

\* A memo cut to the limit.
Truncated(memo) ==
    IF ~IsNone(memo) /\ Len(Get(memo)) > MemoLimit
    THEN Some(SubSeq(Get(memo), 1, MemoLimit))
    ELSE memo

\* The memos of the operation: each as given and as normalised.
MemoPairs ==
    CASE op = "create_account" -> {<<params.account_memo, normalised.value.memo>>}
      [] op = "update_topic" -> {<<params.topic_memo, normalised.value.memo>>}
      [] op = "create_topic" ->
             {<<params.topic_memo, normalised.value.memo>>,
              <<params.transaction_memo, normalised.value.transaction_memo>>}
      [] OTHER -> {<<params.transaction_memo, normalised.value.transaction_memo>>}

\* C17: every normaliser that takes a memo (account_memo of create account;
\* transaction_memo of transfer HBAR, transfer HBAR with allowance, submit
\* topic message, create topic and dissociate token; topic_memo of create and
\* update topic) succeeds whatever the memo's length and returns the memo cut
\* to its first 100 characters, unchanged when it has at most 100.
C17_MemoTruncated ==
    (op \in MemoOps /\ pc /= "start")
        => /\ normalised.ok
           /\ \A pair \in MemoPairs : pair[2] = Truncated(pair[1])

\* The very end of the string.
AtEnd(s, i) == i = Len(s) + 1

\* The two forms of a transaction id, from the first character to the last.
IsMirrorForm(s) == AtEnd(s, MatchFrom(mirror_node_style_regex, s, 1))
IsSdkForm(s) == AtEnd(s, MatchFrom(sdk_style_regex, s, 1))

\* s with the character at index i replaced by c.
Replaced(s, i, c) == [s EXCEPT ![i] = c]

\* t is s with "@" and the "." after it each turned into "-".
IsMirrorOf(t, s) ==
    \E at \in 1..Len(s) :
        /\ s[at] = "@"
        /\ \E dot \in (at + 1)..Len(s) :
               /\ s[dot] = "."
               /\ \A k \in (at + 1)..(dot - 1) : s[k] /= "."
               /\ t = Replaced(Replaced(s, at, "-"), dot, "-")

\* C18: normalise_get_transaction_record_params turns an id of the form
\* shard.realm.num@seconds.nanos into shard.realm.num-seconds-nanos with every
\* digit kept, returns an id of the form shard.realm.num-seconds-nanos as it
\* is, and fails with an invalid-format error on every other string; every
\* result has the mirror form and normalising it again returns it unchanged.
C18_TransactionIdForm ==
    /\ (op = "get_transaction_record" /\ pc = "failed")
           => /\ ~IsMirrorForm(params.transaction_id)
              /\ ~IsSdkForm(params.transaction_id)
              /\ normalised.error.msg[1] = "Invalid transactionId format: "
    /\ (op = "get_transaction_record" /\ pc = "normalised")
           => /\ IsMirrorForm(normalised.value.transaction_id)
              /\ IF IsMirrorForm(params.transaction_id)
                 THEN normalised.value.transaction_id = params.transaction_id
                 ELSE /\ IsSdkForm(params.transaction_id)
                      /\ IsMirrorOf(normalised.value.transaction_id, params.transaction_id)
    /\ (op = "get_transaction_record" /\ pc = "normalised again")
           => /\ normalised.ok
              /\ normalised.value.transaction_id = params.transaction_id

\* The operations whose builder calls maybe_wrap_in_schedule.
WrappingOps == SchedulableOps \ {"transfer_hbar_with_allowance"}

\* The transaction the builder hands to maybe_wrap_in_schedule.
InnerTx == Build(op, [normalised.value EXCEPT !.scheduling_params = None])

WrapResult ==
    (op \in WrappingOps /\ pc = "built")
        => IF IsNone(NormalisedScheduling)
           THEN /\ tx = InnerTx
                /\ tx.type /= "ScheduleCreateTransaction"
                /\ IsNone(tx.scheduled_transaction)
           ELSE /\ tx.type = "ScheduleCreateTransaction"
                /\ tx.schedule = NormalisedScheduling
                /\ tx.scheduled_transaction = Some(InnerTx)
                /\ InnerTx.type /= "ScheduleCreateTransaction"

\* C19: maybe_wrap_in_schedule returns the transaction it was given when the
\* scheduling parameters are absent, and otherwise a schedule-create
\* transaction of those parameters whose scheduled transaction is the one
\* given; the build step calls nothing and changes nothing but the
\* transaction, and a second build of the same normalised parameters gives
\* the same transaction.
C19_MaybeWrap ==
    /\ []WrapResult
    /\ [][pc = "normalised"
              => /\ calls' = calls
                 /\ <<params, normalised, mirror, client, context>>' =
                        <<params, normalised, mirror, client, context>>
                 /\ op \in WrappingOps => Build(op, normalised'.value) = tx']_vars

\* Create account built as a schedule around the account-create transaction.
C19_Witness ==
    /\ op = "create_account" /\ pc = "built"
    /\ ~IsNone(NormalisedScheduling)
    /\ tx.type = "ScheduleCreateTransaction"
    /\ Get(tx.scheduled_transaction).type = "AccountCreateTransaction"
    /\ Get(tx.schedule).wait_for_expiry

\* The scheduling block of the request.
Block == Get(params.scheduling_params)

----------------------------------------------------------------------------
(* Properties of the tools.                                                *)

IsSubSeq(m, t) ==
    \E i \in 0..(Len(t) - Len(m)) : SubSeq(t, i + 1, i + Len(m)) = m
Pos(name) == CHOOSE i \in 1..Len(calls) : calls[i] = name
Before(a, b) == InCalls(a) /\ Pos(a) < Pos(b)
Count(name) == Cardinality({i \in 1..Len(calls) : calls[i] = name})
StepNames ==
    {"get_mirrornode_service", "parse_params_with_schema", "normalise", "build",
     "handle_transaction", "mirror.get_token_info", "post_process"}

\* C4: whatever a step raises, the tool returns a ToolResponse: no exception
\* reaches the caller, and a caught exception leaves a non-absent error.
C4_AlwaysToolResponse ==
    /\ pc /= "escaped"
    /\ pc \in {"done", "failed"} => response.human_message /= <<>>
    /\ exc /= NoError => (pc = "failed" /\ ~IsNone(response.error))

\* A KeyError, raised by the token info query, caught and reported.
C4_Witness ==
    /\ pc = "failed" /\ op = "get_token_info_query"
    /\ exc.cls = "KeyError"
    /\ ~IsNone(response.error)

\* C5 as stated: on failure error is the message m of the exception and
\* human_message is "Failed to <operation>: " followed by m.
C5_ErrorIsCause ==
    pc = "failed"
        => /\ response.error = Some(Str(exc))
           /\ response.human_message = <<FailurePrefix(op), ": ">> \o Str(exc)

\* C5: on failure error and human_message are both "Failed to <operation>: "
\* followed by the message m of the exception; dissociate token adds a raw
\* response of status INVALID_TRANSACTION carrying the same text, the other
\* tools add nothing.
C5_FailureShape ==
    pc = "failed"
        => /\ response.human_message = <<FailurePrefix(op), ": ">> \o Str(exc)
           /\ response.error = Some(response.human_message)
           /\ response.extra = None
           /\ IF op = "dissociate_token"
              THEN /\ ~IsNone(response.raw)
                   /\ Get(response.raw).status = "INVALID_TRANSACTION"
                   /\ Get(response.raw).error = response.error
              ELSE response.raw = None

\* Dissociate token failing in its normaliser, for want of an account.
C5_Witness ==
    /\ pc = "failed" /\ op = "dissociate_token"
    /\ exc.msg = <<"Account ID is required for token dissociation.">>
    /\ ~InCalls("handle_transaction")

\* C6: the cause string of the failing step appears verbatim inside error
\* and inside human_message.
C6_CauseVerbatim ==
    pc = "failed"
        => /\ IsSubSeq(exc.msg, Get(response.error))
           /\ IsSubSeq(exc.msg, response.human_message)

\* Mint fungible token rejected by the ledger for its max supply.
C6_Witness ==
    /\ pc = "failed" /\ op = "mint_fungible_token"
    /\ exc.msg = <<"Transaction failed with status: ", "TOKEN_MAX_SUPPLY_REACHED">>
    /\ IsSubSeq(<<"TOKEN_MAX_SUPPLY_REACHED">>, Get(response.error))

StepOrder ==
    /\ InCalls("normalise") => Before("parse_params_with_schema", "normalise")
    /\ InCalls("build") => (Before("normalise", "build") /\ normalised.ok)
    /\ InCalls("handle_transaction")
           => /\ Before("build", "handle_transaction")
              /\ normalised.ok
              /\ tx = ToolBuild(op, normalised.value)
    /\ (pc = "done" /\ op \in TransactionTools) => InCalls("handle_transaction")

\* C7: the steps run in the order validate, normalise, build, execute; the
\* execution strategy is called only after normalise and build succeeded; a
\* failure before the execute step submits nothing; after a failure no step
\* runs.
C7_StepOrder ==
    /\ []StepOrder
    /\ [][/\ (pc' = "failed" /\ pc /= "handle_transaction") => ~InCalls("handle_transaction")'
          /\ pc = "failed" => UNCHANGED vars]_vars

\* Create fungible token run to the end on a scheduled request.
C7_Witness ==
    /\ pc = "done" /\ op = "create_fungible_token"
    /\ Before("build", "handle_transaction")
    /\ tx.type = "ScheduleCreateTransaction"

\* C8: within one invocation the execution strategy is invoked at most once
\* and no step is run again, whatever fails.
C8_NoRetry ==
    /\ [](\A step \in StepNames : Count(step) <= 1)
    /\ [][InCalls("handle_transaction") => calls' = calls]_vars

\* An execution that failed, having been tried once.
C8_Witness ==
    /\ pc = "failed"
    /\ Count("handle_transaction") = 1
    /\ exc.cls = "Exception"

----------------------------------------------------------------------------
(* Properties of the create and mint fungible token tools.                 *)

Normalising(tool) == op = tool /\ InCalls("normalise")
TokenParams == normalised.value.token_params

\* A request to create a token that names the token and its symbol only.
MinimalCreate ==
    /\ op = "create_fungible_token"
    /\ params.issues = <<>>
    /\ IsNone(params.initial_supply) /\ IsNone(params.supply_type)
    /\ IsNone(params.max_supply) /\ IsNone(params.decimals)
    /\ IsNone(params.treasury_account_id) /\ IsNone(params.is_supply_key)
    /\ IsNone(params.scheduling_params)
    /\ ~IsNone(client.operator_account_id)

GivenDecimals == IF IsNone(params.decimals) THEN 0 ELSE Get(params.decimals)
GivenInitialSupply ==
    IF IsNone(params.initial_supply) THEN 0 ELSE Get(params.initial_supply)
GivenFinite ==
    \/ IsNone(params.supply_type)
    \/ Get(params.supply_type) = 1
    \/ ~IsNone(params.max_supply)

GivenMaxSupply ==
    (IF IsNone(params.max_supply) THEN DefaultMaxSupply ELSE Get(params.max_supply))
        * Pow10(GivenDecimals)
ViolatedConstraints ==
    {c \in {"decimals", "initial", "infinite", "exceeds"} :
        \/ c = "decimals" /\ GivenDecimals < 0
        \/ c = "initial" /\ GivenInitialSupply < 0
        \/ c = "infinite" /\ params.supply_type = Some(0) /\ ~IsNone(params.max_supply)
        \/ c = "exceeds" /\ GivenFinite
               /\ GivenInitialSupply * Pow10(GivenDecimals) > GivenMaxSupply}

\* The words of the message that name each constraint.
ConstraintPhrase(c) ==
    CASE c = "decimals" -> <<"Decimals must be a ", "non-negative">>
      [] c = "initial" -> <<"Initial supply must be a ", "non-negative">>
      [] c = "infinite" -> <<"INFINITE">>
      [] c = "exceeds" -> <<"cannot exceed max">>

\* C13: a create request whose scaled initial_supply exceeds its scaled
\* max_supply, whose decimals or initial_supply is negative, or that gives a
\* max_supply with the INFINITE supply type fails in the normaliser: the tool
\* returns a failure response starting "Failed to create fungible token" that
\* names the constraint, and nothing is built or executed.
C13_SupplyConstraints ==
    (Normalising("create_fungible_token") /\ params.issues = <<>>
         /\ ViolatedConstraints /= {})
        => /\ ~normalised.ok
           /\ pc = "failed"
           /\ ~InCalls("build") /\ ~InCalls("handle_transaction")
           /\ tx = NoTx
           /\ ~IsNone(response.error)
           /\ response.human_message[1] = "Failed to create fungible token"
           /\ \E c \in ViolatedConstraints :
                  IsSubSeq(ConstraintPhrase(c), response.human_message)
           /\ \A c \in ViolatedConstraints :
                  ViolatedConstraints = {c}
                      => IsSubSeq(ConstraintPhrase(c), response.human_message)

\* initial_supply = 200 with max_supply = 100: rejected, nothing executed.
C13_Witness ==
    /\ Normalising("create_fungible_token") /\ pc = "failed"
    /\ params.initial_supply = Some(200) /\ params.max_supply = Some(100)
    /\ ViolatedConstraints = {"exceeds"}
    /\ IsSubSeq(<<"cannot exceed max">>, Get(response.error))
    /\ ~InCalls("handle_transaction")

\* What the mirror service answers for the token of a mint request.
MintAnswer == mirror.get_token_info[Get(params.token_id)]
HasDecimals(d) == MintAnswer.ok /\ MintAnswer.value.decimals = Some(ToString(d))

\* r is num / den rounded as round() does: nearest, a tie to the even integer.
IsRounded(r, num, den) ==
    LET diff == IF num >= r * den THEN num - r * den ELSE r * den - num IN
    /\ 2 * diff <= den
    /\ 2 * diff = den => r % 2 = 0

\* C14: the mint normaliser queries the mirror service's get_token_info once,
\* for the token of the request, and returns that token with the amount times
\* 10^decimals rounded to an integer, decimals being the mirror's answer for
\* that token: 5 at decimals 2 gives 500, 500.0 at decimals 0 gives 500.
C14_MintAmount ==
    Normalising("mint_fungible_token")
        => /\ Count("mirror.get_token_info") = 1
           /\ normalised.ok
                  => /\ normalised.value.token_id =
                            TokenIdFromString(Get(params.token_id))
                     /\ \A d \in 0..MaxDecimals :
                            HasDecimals(d)
                                => IsRounded(normalised.value.amount,
                                             params.amount * Pow10(d), AmountScale)
                     /\ (HasDecimals(2) /\ params.amount = 5 * AmountScale)
                            => normalised.value.amount = 500
                     /\ (HasDecimals(0) /\ params.amount = 500 * AmountScale)
                            => normalised.value.amount = 500
                     /\ (InCalls("build") /\ tx.type = "TokenMintTransaction")
                            => tx.fields.amount = normalised.value.amount

\* 10.5 of a token with 3 decimals, the other token having none: 10500.
C14_Witness ==
    /\ Normalising("mint_fungible_token") /\ normalised.ok
    /\ 2 * params.amount = 21 * AmountScale
    /\ HasDecimals(MaxDecimals)
    /\ \E t \in TokenStrings : mirror.get_token_info[t] = Ok([decimals |-> Some("0")], <<>>)
    /\ normalised.value.amount = 10500
    /\ Count("mirror.get_token_info") = 1
    /\ pc = "done"

\* The shape of a mint request failed before anything was built.
MintFailedUnbuilt(cause) ==
    /\ ~normalised.ok
    /\ pc = "failed"
    /\ tx = NoTx
    /\ ~InCalls("build") /\ ~InCalls("handle_transaction")
    /\ ~IsNone(response.error)
    /\ response.human_message[1] = "Failed to mint fungible token"
    /\ IsSubSeq(cause, response.human_message)

\* C15: when the mirror service's lookup of the token fails, or its answer
\* holds no decimals ("Unable to retrieve token decimals"), the mint
\* normaliser fails, no transaction is built or executed, and the tool
\* returns a response with an error whose human_message starts "Failed to
\* mint fungible token" and carries the cause.
C15_DecimalsUnavailable ==
    Normalising("mint_fungible_token")
        => /\ ~MintAnswer.ok => MintFailedUnbuilt(MintAnswer.error.msg)
           /\ (MintAnswer.ok /\ IsNone(MintAnswer.value.decimals))
                  => MintFailedUnbuilt(<<"Unable to retrieve token decimals">>)

\* A mint of a token the mirror service answers for without decimals, while
\* it knows the decimals of the other token.
C15_Witness ==
    /\ Normalising("mint_fungible_token") /\ pc = "failed"
    /\ MintAnswer.ok /\ IsNone(MintAnswer.value.decimals)
    /\ \E t \in TokenStrings : mirror.get_token_info[t] = Ok([decimals |-> Some("2")], <<>>)
    /\ exc.msg = <<"Unable to retrieve token decimals">>
    /\ calls = <<"get_mirrornode_service", "parse_params_with_schema", "normalise",
                 "mirror.get_token_info">>

\* The key the signer stands for, when given as true.
GivenTrue(raw_value, key) ==
    raw_value = RawBool(TRUE)
        => /\ ~IsNone(client.operator_private_key)
           /\ key = Some(public_key(Get(client.operator_private_key)))

\* C30: a key given as true (the admin key of the scheduling parameters, the
\* admin key or submit key of update topic) is normalised to the signer's
\* public key, or the normalisation fails; it is never normalised to no key,
\* a client without operator private key included.
C30_TrueIsNeverAbsent ==
    (pc /= "start" /\ normalised.ok)
        => /\ op = "update_topic"
                  => /\ GivenTrue(params.admin_key, normalised.value.admin_key)
                     /\ GivenTrue(params.submit_key, normalised.value.submit_key)
           /\ (op \in SchedulableOps /\ InCalls("normalise_scheduled_transaction_params"))
                  => GivenTrue(Block.admin_key, Get(NormalisedScheduling).admin_key)

\* C30 for the scheduling parameters alone.
C30_ScheduleAdminKey ==
    op \in SchedulableOps => C30_TrueIsNeverAbsent

====
